---- MODULE Spec2Model ----
(***************************************************************************)
(* Model of the network discovery / SSE streaming subsystem                *)
(* (raspi_deployer_starter/app/main.py) and of the interactive SSH         *)
(* WebSocket relay (raspi_deployer_starter/app/ssh_ws.py, app/auth.py).    *)
(*                                                                         *)
(* Spec     : one POST /api/discover request, from the resolved target     *)
(*            list to the end of the event stream.                         *)
(* SshSpec  : one WebSocket session on /ssh/{device_id}/ws, from the token *)
(*            check to the return of the handler.                          *)
(* RequestSpec : one POST /api/discover request from its arrival, through  *)
(*            the validation of the body and get_targets_from_request, to  *)
(*            the first events of the stream.                              *)
(* DuoSpec  : the ping phase of two ARP scans served at the same time.     *)
(* InfoSpec : one GET /info request.                                       *)
(* PowerSpec : one reboot or poweroff request, local or for a registered   *)
(*            device (app/devices_api.py, app/registry.py).                *)
(* RegistrySpec : up to MaxRequests device registry requests served at the *)
(*            same time, each load and save of the file a step.            *)
(* LoginSpec : POST /auth/login requests behind the rate limiter.          *)
(* ServiceSpec : one systemctl request, local or for a registered device   *)
(*            (app/services.py, app/config_whitelist.py).                  *)
(* WorkerSpec : one worker of discover_by_ssh on one address.              *)
(* LogsSpec : one WebSocket session on /logs/ws (app/logs_ws.py).          *)
(***************************************************************************)
EXTENDS Integers, Sequences, FiniteSets, TLC

(***************************************************************************)
(* Bounds of the model                                                     *)
(***************************************************************************)
MaxTargets == 3
MaxConc == 2
MaxArpEntries == 2
MaxMsgs == 1

VARIABLES
    \* ---- POST /api/discover ------------------------------------------
    scan_method,      \* payload.scan_method
    targets,          \* targets = get_targets_from_request(payload)
    max_concurrency,  \* payload.max_concurrency
    gen,              \* where the discover_by_* generator is suspended
    es,               \* state of event_generator: streaming / done / failed
    events,           \* the SSE events event_generator has yielded
    disconnected,     \* the client has gone (request.is_disconnected())
    semaphore,        \* free permits of asyncio.Semaphore(max_concurrency)
    ping,             \* state of every safe_ping task of the ARP phase 1
    stdout,           \* arp_pattern.findall(stdout): <<[ip, mac], ...>>
    pos,              \* next entry of the findall list to look at
    found_hosts,      \* found_hosts of discover_by_arp
    todo,             \* what is left of set(targets) - found_hosts
    \* ---- WebSocket /ssh/{device_id}/ws -------------------------------
    token,            \* the token query parameter, as sent
    settings,         \* jwt_secret / app_token of the server
    hpc,              \* position of ssh_websocket_endpoint
    ws,               \* the WebSocket: accepted, close codes, texts sent
    client,           \* the client side: open / closed
    conn,             \* the Fabric connection: obtained, is_connected, closes
    channel,          \* the Paramiko channel: closed, data ready
    read_task,        \* read_from_ssh task
    write_task,       \* write_to_ssh task
    pending,          \* the pending set returned by asyncio.wait
    hist,             \* what was observed when conn.close() was invoked
    \* ---- the HTTP request being served --------------------------------
    request,          \* the request as received: path and body fields
    http,             \* status code of the response, 0 while there is none
    \* ---- two POST /api/discover ARP scans running at once -------------
    scans,            \* per scan: max_concurrency, targets, gen, semaphore, ping
    sems,             \* free permits of every asyncio.Semaphore object created
    \* ---- system, service, registry and login endpoints ----------------
    executed,         \* the commands run so far, locally or over SSH
    registry,         \* the devices stored in the registry file
    calls,            \* the calls in progress: position, locals (loaded copy)
    response,         \* body of the response
    whitelist,        \* the whitelist file: missing, or its services / logs
    bucket            \* SimpleRateLimit.bucket of the client, this minute

scanVars == <<scan_method, targets, max_concurrency, gen, es, events,
              disconnected, semaphore, ping, stdout, pos, found_hosts, todo>>
sshVars == <<token, settings, hpc, ws, client, conn, channel, read_task,
             write_task, pending, hist>>
opsVars == <<executed, registry, calls, response, whitelist, bucket>>
reqVars == <<request, http, opsVars>>
duoVars == <<scans, sems>>
vars == <<scanVars, sshVars, reqVars, duoVars>>

(***************************************************************************)
(* Addresses and MAC strings                                               *)
(***************************************************************************)
IPs == {"10.0.0.1", "10.0.0.2", "10.0.0.3"}

\* MAC tokens as 'arp -a' prints them: sequences of characters
RawMacs == { <<"b","8","-","2","7","-","e","b","-","0","1">>,
             <<"B","8",":","2","7",":","E","B",":","0","1">>,
             <<"D","c",":","a","6",":","3","2",":","0","1">>,
             <<"0","0","-","1","1","-","2","2","-","0","a">> }

\* str.upper() on one character
Upper(c) ==
    CASE c = "a" -> "A" [] c = "b" -> "B" [] c = "c" -> "C"
      [] c = "d" -> "D" [] c = "e" -> "E" [] c = "f" -> "F"
      [] OTHER -> c

\* the OUI prefixes of the Raspberry Pi vendors
RPI_MAC_PREFIXES ==
    { <<"2","8",":","C","D",":","C","1">>, <<"B","8",":","2","7",":","E","B">>,
      <<"D","C",":","A","6",":","3","2">>, <<"E","4",":","5","F",":","0","1">>,
      <<"D","8",":","3","A",":","D","D">>, <<"2","C",":","C","F",":","6","7">>,
      <<"8","8",":","A","2",":","9","E">> }

\* str.startswith
startswith(s, prefix) ==
    /\ Len(s) >= Len(prefix)
    /\ SubSeq(s, 1, Len(prefix)) = prefix

\* any(mac.startswith(prefix) for prefix in RPI_MAC_PREFIXES)
is_rpi(mac) == \E prefix \in RPI_MAC_PREFIXES : startswith(mac, prefix)

NormalizeMac_NoUpper(mac) ==
    [i \in 1..Len(mac) |-> IF mac[i] = "-" THEN ":" ELSE mac[i]]

\* mac.replace("-", ":").upper()
NormalizeMac(mac) ==
    [i \in 1..Len(mac) |-> Upper(IF mac[i] = "-" THEN ":" ELSE mac[i])]

RECURSIVE SeqsUpTo(_, _)
SeqsUpTo(S, n) ==
    IF n = 0 THEN {<<>>}
    ELSE LET shorter == SeqsUpTo(S, n - 1)
         IN  shorter \cup {Append(s, x) : s \in {t \in shorter : Len(t) = n - 1}, x \in S}

Range(s) == {s[i] : i \in 1..Len(s)}

\* what get_targets_from_request returns for IPv4 hosts: non-empty, no
\* string twice
TargetLists ==
    {s \in SeqsUpTo(IPs, MaxTargets) : Len(s) >= 1 /\ Cardinality(Range(s)) = Len(s)}

ArpEntries == [ip : IPs, mac : RawMacs]
ArpTables == SeqsUpTo(ArpEntries, MaxArpEntries)

(***************************************************************************)
(* SSE events                                                              *)
(***************************************************************************)
NoMac == <<>>

LogEvent(message) ==
    [type |-> "log", message |-> message, ip |-> "", status |-> "",
     method |-> "", mac |-> NoMac, is_raspberry_pi |-> FALSE]

ResultEvent(ip, status, method, mac, is_raspberry_pi) ==
    [type |-> "result", message |-> "", ip |-> ip, status |-> status,
     method |-> method, mac |-> mac, is_raspberry_pi |-> is_raspberry_pi]

FIN == LogEvent("FIN_ESCANEADO")

StartMessage(m) ==
    CASE m = "arp" -> "Iniciando escaneo ARP..."
      [] m = "ping" -> "Iniciando escaneo con Ping..."
      [] m = "ssh" -> "Iniciando escaneo de puerto SSH (22)..."

(***************************************************************************)
(* POST /api/discover                                                      *)
(***************************************************************************)
NoPing == [ip \in IPs |-> "none"]

\* a safe_ping task is over: ping_host has returned ("done") or has raised
\* ("raised"); gather(..., return_exceptions=True) keeps either as a result
PingOver == {"done", "raised"}

InitScanIdle ==
    /\ gen = "init"
    /\ es = "streaming"
    /\ events = <<>>
    /\ disconnected = FALSE
    /\ semaphore = 0
    /\ ping = NoPing
    /\ stdout = <<>>
    /\ pos = 1
    /\ found_hosts = {}
    /\ todo = {}

InitScan ==
    /\ scan_method \in {"ssh", "ping", "arp"}
    /\ targets \in TargetLists
    /\ max_concurrency \in 1..MaxConc
    /\ InitScanIdle

\* event_generator, one turn of its loop for an event the discovery generator
\* produced:  if await request.is_disconnected(): break  /  yield event_str,
\* and after a break the statement after the loop, yield FIN_ESCANEADO.
Yield_NoCheck(e) ==
    /\ events' = Append(events, e)
    /\ es' = es

Yield(e) ==
    IF disconnected
    THEN /\ events' = Append(events, FIN)
         /\ es' = "done"
    ELSE /\ events' = Append(events, e)
         /\ es' = es

\* the client closes the connection while the response is streamed
ClientDisconnect ==
    /\ es = "streaming"
    /\ ~disconnected
    /\ disconnected' = TRUE
    /\ UNCHANGED <<reqVars, duoVars, sshVars, scan_method, targets, max_concurrency, gen, es, events,
                   semaphore, ping, stdout, pos, found_hosts, todo>>

\* the first yield of discover_by_arp / discover_by_ping / discover_by_ssh
DiscoverStart ==
    /\ es = "streaming"
    /\ gen = "init"
    /\ gen' = "started"
    /\ Yield(LogEvent(StartMessage(scan_method)))
    /\ UNCHANGED <<reqVars, duoVars, sshVars, scan_method, targets, max_concurrency, disconnected,
                   semaphore, ping, stdout, pos, found_hosts, todo>>

\* discover_by_ping / discover_by_ssh after the first yield:
\*     for task in asyncio.as_completed([worker(ip) for ip in targets])
\* worker is an async generator function (its body yields), so worker(ip) is
\* an async generator object, which asyncio.ensure_future refuses with
\* TypeError.  No worker body ever runs; the exception leaves
\* discover_by_*, then event_generator, and the stream ends without sentinel.
AsCompleted ==
    /\ es = "streaming"
    /\ gen = "started"
    /\ scan_method \in {"ping", "ssh"}
    /\ gen' = "raised"
    /\ es' = "failed"
    /\ UNCHANGED <<reqVars, duoVars, sshVars, scan_method, targets, max_concurrency, events, disconnected,
                   semaphore, ping, stdout, pos, found_hosts, todo>>

\* discover_by_arp: semaphore = asyncio.Semaphore(payload.max_concurrency),
\* asyncio.gather(*(safe_ping(ip) for ip in targets), return_exceptions=True)
ArpGather ==
    /\ es = "streaming"
    /\ gen = "started"
    /\ scan_method = "arp"
    /\ gen' = "gather"
    /\ semaphore' = max_concurrency
    /\ ping' = [ip \in IPs |-> IF ip \in Range(targets) THEN "waiting" ELSE "none"]
    /\ UNCHANGED <<reqVars, duoVars, sshVars, scan_method, targets, max_concurrency, es, events,
                   disconnected, stdout, pos, found_hosts, todo>>

\* safe_ping: async with semaphore (acquire), then ping_host starts
safe_ping_acquire_unguarded(ip) ==
    /\ gen = "gather"
    /\ ping[ip] = "waiting"
    /\ semaphore' = semaphore - 1
    /\ ping' = [ping EXCEPT ![ip] = "pinging"]
    /\ UNCHANGED <<reqVars, duoVars, sshVars, scan_method, targets, max_concurrency, gen, es, events,
                   disconnected, stdout, pos, found_hosts, todo>>

safe_ping_acquire(ip) ==
    /\ gen = "gather"
    /\ ping[ip] = "waiting"
    /\ semaphore > 0
    /\ semaphore' = semaphore - 1
    /\ ping' = [ping EXCEPT ![ip] = "pinging"]
    /\ UNCHANGED <<reqVars, duoVars, sshVars, scan_method, targets, max_concurrency, gen, es, events,
                   disconnected, stdout, pos, found_hosts, todo>>

safe_ping_release_leak(ip) ==
    /\ gen = "gather"
    /\ ping[ip] = "pinging"
    /\ \E outcome \in PingOver : ping' = [ping EXCEPT ![ip] = outcome]
    /\ semaphore' = semaphore
    /\ UNCHANGED <<reqVars, duoVars, sshVars, scan_method, targets, max_concurrency, gen, es, events,
                   disconnected, stdout, pos, found_hosts, todo>>

\* safe_ping: ping_host returns or raises (gather keeps either as a result:
\* return_exceptions=True), the async with block releases the permit
safe_ping_release(ip) ==
    /\ gen = "gather"
    /\ ping[ip] = "pinging"
    /\ \E outcome \in PingOver : ping' = [ping EXCEPT ![ip] = outcome]
    /\ semaphore' = semaphore + 1
    /\ UNCHANGED <<reqVars, duoVars, sshVars, scan_method, targets, max_concurrency, gen, es, events,
                   disconnected, stdout, pos, found_hosts, todo>>

\* a gather that returns as soon as one ping is over
ArpTableUpdated_FirstCompleted ==
    /\ es = "streaming"
    /\ gen = "gather"
    /\ \E ip \in Range(targets) : ping[ip] \in PingOver
    /\ gen' = "log2"
    /\ Yield(LogEvent("Tabla ARP actualizada. Obteniendo datos..."))
    /\ UNCHANGED <<reqVars, duoVars, sshVars, scan_method, targets, max_concurrency, disconnected,
                   semaphore, ping, stdout, pos, found_hosts, todo>>

\* gather has every result (or exception): the second log event
ArpTableUpdated ==
    /\ es = "streaming"
    /\ gen = "gather"
    /\ \A ip \in Range(targets) : ping[ip] \in PingOver
    /\ gen' = "log2"
    /\ Yield(LogEvent("Tabla ARP actualizada. Obteniendo datos..."))
    /\ UNCHANGED <<reqVars, duoVars, sshVars, scan_method, targets, max_concurrency, disconnected,
                   semaphore, ping, stdout, pos, found_hosts, todo>>

\* stdout, _ = await run_command("arp -a"); arp_pattern.findall(stdout)
ArpRead ==
    /\ es = "streaming"
    /\ gen = "log2"
    /\ \E table \in ArpTables : stdout' = table
    /\ pos' = 1
    /\ found_hosts' = {}
    /\ gen' = "table"
    /\ UNCHANGED <<reqVars, duoVars, sshVars, scan_method, targets, max_concurrency, es, events,
                   disconnected, semaphore, ping, todo>>

\* the entries from pos on whose ip is one of the targets
Matching == {i \in pos..Len(stdout) : stdout[i].ip \in Range(targets)}

Min(S) == CHOOSE x \in S : \A y \in S : x <= y

\* The list gather returned is not kept (the await is a bare statement) and
\* nothing after the table read looks at the ping tasks: from the first step
\* after the read the model no longer tells how each of them ended.
Forget(p) == [ip \in IPs |-> IF p[ip] = "raised" THEN "done" ELSE p[ip]]

\* for ip, mac in findall: if ip not in targets: continue; ... yield result
ArpYieldActive ==
    /\ es = "streaming"
    /\ gen = "table"
    /\ Matching # {}
    /\ LET i == Min(Matching)
       IN  /\ Yield(ResultEvent(stdout[i].ip, "active", "arp",
                                NormalizeMac(stdout[i].mac),
                                is_rpi(NormalizeMac(stdout[i].mac))))
           /\ found_hosts' = found_hosts \cup {stdout[i].ip}
           /\ pos' = i + 1
    /\ ping' = Forget(ping)
    /\ UNCHANGED <<reqVars, duoVars, sshVars, scan_method, targets, max_concurrency, gen, disconnected,
                   semaphore, stdout, todo>>

\* the findall loop ends: for ip in set(targets) - found_hosts
ArpTableExhausted ==
    /\ es = "streaming"
    /\ gen = "table"
    /\ Matching = {}
    /\ todo' = Range(targets) \ found_hosts
    /\ gen' = "inactive"
    /\ ping' = Forget(ping)
    /\ UNCHANGED <<reqVars, duoVars, sshVars, scan_method, targets, max_concurrency, es, events,
                   disconnected, semaphore, stdout, pos, found_hosts>>

\* one turn of the loop over set(targets) - found_hosts (a set: any order)
ArpYieldInactive ==
    /\ es = "streaming"
    /\ gen = "inactive"
    /\ \E ip \in todo :
          /\ Yield(ResultEvent(ip, "inactive", "arp", NoMac, FALSE))
          /\ todo' = todo \ {ip}
    /\ UNCHANGED <<reqVars, duoVars, sshVars, scan_method, targets, max_concurrency, gen, disconnected,
                   semaphore, ping, stdout, pos, found_hosts>>

GeneratorEnd_NoSentinel ==
    /\ es = "streaming"
    /\ gen = "inactive"
    /\ todo = {}
    /\ gen' = "exhausted"
    /\ es' = "done"
    /\ UNCHANGED <<reqVars, duoVars, sshVars, scan_method, targets, max_concurrency, events, disconnected,
                   semaphore, ping, stdout, pos, found_hosts, todo>>

\* discover_by_arp returns, the async for of event_generator ends:
\* yield await stream_event("log", {"message": "FIN_ESCANEADO"})
GeneratorEnd ==
    /\ es = "streaming"
    /\ gen = "inactive"
    /\ todo = {}
    /\ gen' = "exhausted"
    /\ events' = Append(events, FIN)
    /\ es' = "done"
    /\ UNCHANGED <<reqVars, duoVars, sshVars, scan_method, targets, max_concurrency, disconnected,
                   semaphore, ping, stdout, pos, found_hosts, todo>>

NextScan ==
    \/ ClientDisconnect
    \/ DiscoverStart
    \/ AsCompleted
    \/ ArpGather
    \/ \E ip \in IPs : safe_ping_acquire(ip)
    \/ \E ip \in IPs : safe_ping_release(ip)
    \/ ArpTableUpdated
    \/ ArpRead
    \/ ArpYieldActive
    \/ ArpTableExhausted
    \/ ArpYieldInactive
    \/ GeneratorEnd


(***************************************************************************)
(* Tokens and the token check (app/auth.py, ssh_ws._extract_token)         *)
(***************************************************************************)
\* The text of a token: nothing, an opaque string, or a JWT described by
\* what jwt.decode finds in it.
Tok(kind, text, sig, exp, role) ==
    [kind |-> kind, text |-> text, sig |-> sig, exp |-> exp, role |-> role]

None == Tok("none", "", "", "", "")

\* Python's None where the model holds a string
Null == "None"

\* a key of the whitelist file: missing, or the list it holds
NoItems == [present |-> FALSE, items |-> <<>>]
Items(list) == [present |-> TRUE, items |-> list]

\* a whitelist file that restricts nothing
OpenWhitelist == [exists |-> TRUE, services |-> NoItems, logs_units |-> NoItems]

EmptyText == Tok("empty", "", "", "", "")
OpaqueTexts == {Tok("opaque", t, "", "", "") : t \in {"s3cret", "abc"}}
JwtTexts == {Tok("jwt", "", sig, exp, role) :
                sig \in {"ok", "bad"}, exp \in {"fresh", "expired"},
                role \in {"admin", "readonly", "absent", "root"}}

\* websocket.query_params.get("token"): absent, or a string that may carry a
\* "Bearer " prefix in front of its text
QueryTokens ==
    {[present |-> FALSE, bearer |-> FALSE, body |-> None]}
    \cup [present : {TRUE}, bearer : BOOLEAN,
          body : {EmptyText} \cup OpaqueTexts \cup JwtTexts]

\* get_settings(): whether JWT_SECRET is set, and the static APP_TOKEN
Settings == [jwt_secret : BOOLEAN, app_token : {"", "s3cret"}]

\* _ROLE_LEVEL = {"readonly": 0, "admin": 1}
_ROLE_LEVEL(role) == IF role = "admin" THEN 1 ELSE 0

_role_allows_reversed(actual, required) == _ROLE_LEVEL(actual) <= _ROLE_LEVEL(required)

\* _role_allows
_role_allows(actual, required) == _ROLE_LEVEL(actual) >= _ROLE_LEVEL(required)

\* _extract_token: None for no value; strip, drop a "bearer " prefix, strip;
\* token or None.  A prefix with nothing after it is stripped to "Bearer",
\* which does not start with "bearer " and is returned as it is.
_extract_token(value) ==
    IF ~value.present THEN None
    ELSE IF value.body.kind = "empty"
         THEN IF value.bearer THEN Tok("opaque", "Bearer", "", "", "") ELSE None
    ELSE value.body

\* results of the authentication helpers: a context, None, or an HTTPException
Ctx(role) == [tag |-> "ctx", role |-> role, status |-> 0]
NoCtx == [tag |-> "none", role |-> "", status |-> 0]
Raise(status) == [tag |-> "raise", role |-> "", status |-> status]

\* _decode_jwt
_decode_jwt(tok, st) ==
    IF ~st.jwt_secret THEN Raise(401)
    ELSE IF tok.kind # "jwt" THEN Raise(401)          \* InvalidTokenError
    ELSE IF tok.sig # "ok" THEN Raise(401)            \* InvalidTokenError
    ELSE IF tok.exp # "fresh" THEN Raise(401)         \* ExpiredSignatureError
    ELSE LET role == IF tok.role = "absent" THEN "readonly" ELSE tok.role
         IN  IF role \notin {"readonly", "admin"} THEN Raise(403)
             ELSE Ctx(role)

\* _authenticate_token: except HTTPException: raise
_authenticate_token(raw_token, st) ==
    IF raw_token = None THEN NoCtx
    ELSE IF st.app_token # "" /\ raw_token.kind = "opaque"
            /\ raw_token.text = st.app_token
         THEN Ctx("admin")
    ELSE _decode_jwt(raw_token, st)

\* validate_token: "true", "false", or "raise" when _authenticate_token raised
validate_token(raw_token, required, st) ==
    LET context == _authenticate_token(raw_token, st)
    IN  IF context.tag = "raise" THEN "raise"
        ELSE IF context.tag = "none" THEN "false"
        ELSE IF _role_allows(context.role, required) THEN "true"
        ELSE "false"


(***************************************************************************)
(* WebSocket /ssh/{device_id}/ws  (app/ssh_ws.py)                          *)
(***************************************************************************)
Finished == {"returned", "raised"}
Alive == {"created", "running", "cancelling"}
HandlerOver == {"rejected", "escaped", "returned"}

InitSshIdle ==
    /\ hpc = "validate"
    /\ ws = [accepted |-> FALSE, close_code |-> 0, delivered |-> 0]
    /\ client = "open"
    /\ conn = [obtained |-> FALSE, is_connected |-> FALSE, closes |-> 0]
    /\ channel = [opened |-> FALSE, closed |-> FALSE, forwarded |-> 0]
    /\ read_task = "none"
    /\ write_task = "none"
    /\ pending = {}
    /\ hist = [lookups |-> 0, via |-> "none", alive_at_close |-> {},
               remote_closed |-> FALSE, client_left_live |-> FALSE]

InitSsh ==
    /\ token \in QueryTokens
    /\ settings \in Settings
    /\ InitSshIdle

TaskState(t) == IF t = "read" THEN read_task ELSE write_task

\* lines 40-46: the token check, then websocket.close(1008) or accept()
HandlerValidate ==
    /\ hpc = "validate"
    /\ LET raw_token == _extract_token(token)
           valid == validate_token(raw_token, "admin", settings)
       IN  \/ /\ valid = "false"
              /\ ws' = [ws EXCEPT !.close_code = 1008]
              /\ hpc' = "rejected"
           \/ /\ valid = "raise"          \* the HTTPException leaves the endpoint
              /\ ws' = ws
              /\ hpc' = "escaped"
           \/ /\ valid = "true"
              /\ ws' = [ws EXCEPT !.accepted = TRUE]
              /\ hpc' = "lookup"
    /\ UNCHANGED <<reqVars, duoVars, scanVars, token, settings, client, conn, channel, read_task,
                   write_task, pending, hist>>

\* line 50: conn = ssh_manager.get_ssh_connection(device_id); HTTPException
\* 404 / 409 when the device is unknown or has no password
HandlerLookup ==
    /\ hpc = "lookup"
    /\ \/ /\ conn' = [conn EXCEPT !.obtained = TRUE]
          /\ hpc' = "shell"
       \/ /\ conn' = conn
          /\ hpc' = "except_http"
    /\ hist' = [hist EXCEPT !.lookups = @ + 1]
    /\ UNCHANGED <<reqVars, duoVars, scanVars, token, settings, ws, client, channel, read_task,
                   write_task, pending>>

\* lines 54-55: channel = conn.invoke_shell(term="xterm"); it returns the
\* channel, or raises with the transport up or not
HandlerInvokeShell ==
    /\ hpc = "shell"
    /\ \/ /\ conn' = [conn EXCEPT !.is_connected = TRUE]
          /\ channel' = [channel EXCEPT !.opened = TRUE]
          /\ hpc' = "create"
       \/ /\ \E up \in BOOLEAN : conn' = [conn EXCEPT !.is_connected = up]
          /\ channel' = channel
          /\ hpc' = "except_exc"
    /\ UNCHANGED <<reqVars, duoVars, scanVars, token, settings, ws, client, read_task, write_task,
                   pending, hist>>

\* lines 85-89: both tasks are created, the handler awaits asyncio.wait
HandlerCreateTasks ==
    /\ hpc = "create"
    /\ read_task' = "created"
    /\ write_task' = "created"
    /\ hpc' = "wait1"
    /\ UNCHANGED <<reqVars, duoVars, scanVars, token, settings, ws, client, conn, channel, pending, hist>>


\* read_from_ssh, one turn of  while not channel.closed:  recv_ready / recv /
\* await websocket.send_text / await asyncio.sleep(0.01).  A send to a client
\* that has gone raises (not OSError: the task ends with the exception) or is
\* dropped, depending on the server.
ReadStep ==
    /\ read_task \in {"created", "running"}
    /\ \/ /\ channel.closed                       \* the loop ends (or OSError)
          /\ read_task' = "returned"
          /\ ws' = ws
       \/ /\ ~channel.closed                      \* nothing ready: sleep
          /\ read_task = "created"
          /\ read_task' = "running"
          /\ ws' = ws
       \/ /\ ~channel.closed                      \* data forwarded
          /\ client = "open"
          /\ ws.delivered < MaxMsgs
          /\ read_task' = "running"
          /\ ws' = [ws EXCEPT !.delivered = @ + 1]
       \/ /\ ~channel.closed                      \* data, but the client has gone
          /\ client = "closed"
          /\ \E r \in {"running", "raised"} : read_task' = r
          /\ ws' = ws
    /\ UNCHANGED <<reqVars, duoVars, scanVars, token, settings, hpc, client, conn, channel, write_task,
                   pending, hist>>

\* read_from_ssh: except (OSError, asyncio.CancelledError): pass
ReadCancelled ==
    /\ read_task = "cancelling"
    /\ read_task' = "returned"
    /\ UNCHANGED <<reqVars, duoVars, scanVars, token, settings, hpc, ws, client, conn, channel, write_task,
                   pending, hist>>

\* write_to_ssh up to its first await:  while not channel.closed
WriteBegin ==
    /\ write_task = "created"
    /\ write_task' = IF channel.closed THEN "returned" ELSE "running"
    /\ UNCHANGED <<reqVars, duoVars, scanVars, token, settings, hpc, ws, client, conn, channel, read_task,
                   pending, hist>>

\* write_to_ssh: data = await websocket.receive_text(); channel.send(data).
\* channel.send on a closed channel raises OSError, which is not caught.
WriteForward ==
    /\ write_task = "running"
    /\ client = "open"
    /\ IF channel.closed
       THEN /\ write_task' = "raised"
            /\ channel' = channel
       ELSE /\ channel.forwarded < MaxMsgs
            /\ write_task' = "running"
            /\ channel' = [channel EXCEPT !.forwarded = @ + 1]
    /\ UNCHANGED <<reqVars, duoVars, scanVars, token, settings, hpc, ws, client, conn, read_task, pending,
                   hist>>

\* write_to_ssh: receive_text raises WebSocketDisconnect, which is caught
WriteDisconnect ==
    /\ write_task = "running"
    /\ client = "closed"
    /\ write_task' = "returned"
    /\ UNCHANGED <<reqVars, duoVars, scanVars, token, settings, hpc, ws, client, conn, channel, read_task,
                   pending, hist>>

\* write_to_ssh: except (WebSocketDisconnect, asyncio.CancelledError): pass
WriteCancelled ==
    /\ write_task = "cancelling"
    /\ write_task' = "returned"
    /\ UNCHANGED <<reqVars, duoVars, scanVars, token, settings, hpc, ws, client, conn, channel, read_task,
                   pending, hist>>

AfterCancel(state) == IF state \in Finished THEN state ELSE "cancelling"

\* lines 89-100: asyncio.wait(FIRST_COMPLETED) returns; every task still
\* pending is cancelled; the handler awaits asyncio.wait(pending).  The first
\* step of both tasks is scheduled before the wake-up of the handler.
HandlerWait1 ==
    /\ hpc = "wait1"
    /\ \E t \in {"read", "write"} : TaskState(t) \in Finished
    /\ "created" \notin {read_task, write_task}
    /\ pending' = {t \in {"read", "write"} : TaskState(t) \notin Finished}
    /\ read_task' = AfterCancel(read_task)
    /\ write_task' = AfterCancel(write_task)
    /\ hpc' = IF pending' = {} THEN "finally" ELSE "wait2"
    /\ hist' = [hist EXCEPT !.via = "normal"]
    /\ UNCHANGED <<reqVars, duoVars, scanVars, token, settings, ws, client, conn, channel>>

\* line 100: asyncio.wait(pending) returns
HandlerWait2 ==
    /\ hpc = "wait2"
    /\ \A t \in pending : TaskState(t) \in Finished
    /\ hpc' = "finally"
    /\ UNCHANGED <<reqVars, duoVars, scanVars, token, settings, ws, client, conn, channel, read_task,
                   write_task, pending, hist>>

\* the handler task is cancelled while it awaits asyncio.wait (line 89), the
\* pumps having taken their first step: CancelledError is no Exception,
\* lines 95-100 are skipped, the finally clause runs
HandlerCancelled ==
    /\ hpc = "wait1"
    /\ "created" \notin {read_task, write_task}
    /\ hpc' = "finally"
    /\ hist' = [hist EXCEPT !.via = "cancelled"]
    /\ UNCHANGED <<reqVars, duoVars, scanVars, token, settings, ws, client, conn, channel, read_task,
                   write_task, pending>>

\* lines 102-105: except HTTPException: send_text, close(code=1011); a send
\* to a client that has gone does not get as far as the close
HandlerExceptHTTP ==
    /\ hpc = "except_http"
    /\ ws' = IF client = "open" THEN [ws EXCEPT !.close_code = 1011] ELSE ws
    /\ hpc' = "finally"
    /\ hist' = [hist EXCEPT !.via = "http"]
    /\ UNCHANGED <<reqVars, duoVars, scanVars, token, settings, client, conn, channel, read_task,
                   write_task, pending>>

HandlerExceptException_Return ==
    /\ hpc = "except_exc"
    /\ ws' = IF client = "open" THEN [ws EXCEPT !.close_code = 1011] ELSE ws
    /\ hpc' = "returned"
    /\ hist' = [hist EXCEPT !.via = "exc"]
    /\ UNCHANGED <<reqVars, duoVars, scanVars, token, settings, client, conn, channel, read_task,
                   write_task, pending>>

\* lines 106-110: except Exception: send_text, close(code=1011)
HandlerExceptException ==
    /\ hpc = "except_exc"
    /\ ws' = IF client = "open" THEN [ws EXCEPT !.close_code = 1011] ELSE ws
    /\ hpc' = "finally"
    /\ hist' = [hist EXCEPT !.via = "exc"]
    /\ UNCHANGED <<reqVars, duoVars, scanVars, token, settings, client, conn, channel, read_task,
                   write_task, pending>>

HandlerFinally_NoClose ==
    /\ hpc = "finally"
    /\ hpc' = "returned"
    /\ UNCHANGED <<reqVars, duoVars, scanVars, token, settings, ws, client, conn, channel, read_task,
                   write_task, pending, hist>>

\* lines 111-115: if 'conn' in locals() and conn.is_connected: conn.close()
HandlerFinally ==
    /\ hpc = "finally"
    /\ IF conn.obtained /\ conn.is_connected
       THEN /\ conn' = [conn EXCEPT !.is_connected = FALSE, !.closes = @ + 1]
            /\ channel' = [channel EXCEPT !.closed = channel.opened]
            /\ hist' = [hist EXCEPT !.alive_at_close =
                           {t \in {"read", "write"} : TaskState(t) \in Alive}]
       ELSE UNCHANGED <<conn, channel, hist>>
    /\ hpc' = "returned"
    /\ UNCHANGED <<reqVars, duoVars, scanVars, token, settings, ws, client, read_task, write_task, pending>>

\* the session is live: the shell is open and the pumps are (about to be) up
Live == channel.opened /\ ~channel.closed /\ hpc \in {"create", "wait1"}

\* the client closes its WebSocket
ClientClose ==
    /\ ws.accepted
    /\ client = "open"
    /\ hpc \notin HandlerOver
    /\ client' = "closed"
    /\ hist' = [hist EXCEPT !.client_left_live = Live]
    /\ UNCHANGED <<reqVars, duoVars, scanVars, token, settings, hpc, ws, conn, channel, read_task,
                   write_task, pending>>

\* the remote side ends the shell; the transport may or may not survive it
RemoteClose ==
    /\ channel.opened
    /\ ~channel.closed
    /\ channel' = [channel EXCEPT !.closed = TRUE]
    /\ \E up \in BOOLEAN : conn' = [conn EXCEPT !.is_connected = up]
    /\ hist' = [hist EXCEPT !.remote_closed = TRUE]
    /\ UNCHANGED <<reqVars, duoVars, scanVars, token, settings, hpc, ws, client, read_task, write_task,
                   pending>>

Handler ==
    \/ HandlerValidate
    \/ HandlerLookup
    \/ HandlerInvokeShell
    \/ HandlerCreateTasks
    \/ HandlerWait1
    \/ HandlerWait2
    \/ HandlerExceptHTTP
    \/ HandlerExceptException
    \/ HandlerFinally

ReadPump == ReadStep \/ ReadCancelled

WritePump == WriteBegin \/ WriteForward \/ WriteDisconnect \/ WriteCancelled

NextSsh ==
    \/ Handler
    \/ ReadPump
    \/ WritePump
    \/ HandlerCancelled
    \/ ClientClose
    \/ RemoteClose

(***************************************************************************)
(* The body of POST /api/discover and get_targets_from_request             *)
(***************************************************************************)
\* longest payload.hosts list drawn
MaxHosts == 2

\* A string of the request that stands for an IP address.  ver/n say which
\* address it spells (n counts from the base of the network of the request:
\* 10.0.0.n, fe80::n), form says how:
\*   "canon"  the spelling str(ip) prints            "fe80::1"
\*   "alt"    another spelling the parser accepts    "FE80::1", "fe80:0::1"
\*   "bad"    not an address                          "10.0.0.300"
\*   "blank"  nothing but whitespace
\* and pad says whether whitespace surrounds it.
Text(ver, n, form, pad) == [ver |-> ver, n |-> n, form |-> form, pad |-> pad]

Address(ver, n) == [ver |-> ver, n |-> n]

ValueError == Address(-1, -1)

\* host.strip()
strip(text) == [text EXCEPT !.pad = FALSE]

\* ipaddress.ip_address(host): the address a string spells, or ValueError.
\* IPv4 has one spelling only; IPv6 has several for one address.
ip_address_lenient(text) == Address(text.ver, text.n)

ip_address(text) ==
    IF text.pad \/ text.form \in {"bad", "blank"}
    THEN ValueError
    ELSE Address(text.ver, text.n)

\* str(ip)
StrOf(address) == Text(address.ver, address.n, "canon", FALSE)

HostTexts ==
    { Text(4, 1, "canon", FALSE), Text(4, 2, "canon", FALSE),
      Text(4, 1, "canon", TRUE),
      Text(6, 1, "canon", FALSE), Text(6, 1, "alt", FALSE),
      Text(0, 0, "blank", TRUE), Text(0, 0, "bad", FALSE) }

HostLists == SeqsUpTo(HostTexts, MaxHosts)

\* payload.network: absent (None or ""), a string ip_network refuses, or a
\* CIDR block of 2^hostbits addresses (10.0.0.0/(32-hostbits),
\* fe80::/(128-hostbits))
NetBits == {0, 1, 2, 12, 13}

NoNetwork == [kind |-> "none", ver |-> 0, hostbits |-> 0]

Networks ==
    {NoNetwork, [kind |-> "bad", ver |-> 0, hostbits |-> 0]}
    \cup [kind : {"cidr"}, ver : {4, 6}, hostbits : NetBits]

RECURSIVE Pow2(_)
Pow2(k) == IF k = 0 THEN 1 ELSE 2 * Pow2(k - 1)

\* network.num_addresses
num_addresses(network) == Pow2(network.hostbits)

\* network.hosts(): every address of a /32, /128, /31 or /127; otherwise all
\* but the network address and, for IPv4, the broadcast address; ascending
hosts(network) ==
    LET size == num_addresses(network)
        lo == IF network.hostbits <= 1 THEN 0 ELSE 1
        hi == IF network.hostbits <= 1 THEN size - 1
              ELSE IF network.ver = 4 THEN size - 2 ELSE size - 1
    IN  [i \in 1..(hi - lo + 1) |-> Address(network.ver, lo + i - 1)]

\* if num_hosts > 4096: raise HTTPException(status_code=400, ...)
TooLarge_Inclusive(network) == num_addresses(network) >= 4096

TooLarge(network) == num_addresses(network) > 4096

\* list(dict.fromkeys(targets)): every key once, at its first position
Dedupe(s) ==
    LET idx == [i \in 1..Len(s) |-> i]
        kept == SelectSeq(idx, LAMBDA i : \A j \in 1..(i - 1) : s[j] # s[i])
    IN  [k \in 1..Len(kept) |-> s[kept[k]]]

HTTP400 == [status |-> 400, targets |-> <<>>]

\* the resolver: the target list, or the HTTPException it raises
get_targets_from_request(payload) ==
    LET network == payload.network
        addresses == hosts(network)
        from_network ==
            IF network.kind = "cidr"
            THEN [i \in 1..Len(addresses) |-> StrOf(addresses[i])]
            ELSE <<>>
        stripped == [i \in 1..Len(payload.hosts) |-> strip(payload.hosts[i])]
        given == SelectSeq(stripped, LAMBDA host : host.form # "blank")
        unique_targets == Dedupe(from_network \o given)
    IN  IF network.kind = "bad" THEN HTTP400
        ELSE IF network.kind = "cidr" /\ TooLarge(network) THEN HTTP400
        ELSE IF \E i \in 1..Len(given) : ip_address(given[i]) = ValueError
             THEN HTTP400
        ELSE IF unique_targets = <<>> THEN HTTP400
        ELSE [status |-> 200, targets |-> unique_targets]

\* timeout in hundredths of a second (150 is the default 1.5)
Timeouts == {5, 10, 11, 150, 1000, 1001}

Concurrencies == {0, 1, 100, 512, 513}

\* host lists drawn next to the two largest networks
FewHostLists ==
    {<<>>, <<Text(0, 0, "bad", FALSE)>>, <<Text(6, 1, "alt", FALSE)>>,
     <<Text(4, 1, "canon", FALSE), Text(4, 2, "canon", FALSE)>>}

\* the bodies drawn: every network with every host list under the default
\* timeout and max_concurrency (the two largest networks with FewHostLists),
\* and every timeout and max_concurrency with one host
DiscoverRequests ==
    {r \in [path : {"/api/discover"}, network : Networks, hosts : HostLists,
            timeout : Timeouts, max_concurrency : Concurrencies] :
        /\ \/ r.timeout = 150 /\ r.max_concurrency = 100
           \/ r.network = NoNetwork /\ r.hosts = <<Text(4, 1, "canon", FALSE)>>
        /\ r.network.hostbits >= 12 => r.hosts \in FewHostLists}

DiscoverRequest_Inclusive(body) ==
    /\ body.timeout >= 10
    /\ body.timeout <= 1000
    /\ body.max_concurrency >= 1
    /\ body.max_concurrency <= 512

\* class DiscoverRequest: timeout = Field(1.5, gt=0.1, le=10.0),
\* max_concurrency = Field(100, ge=1, le=512)
DiscoverRequest(body) ==
    /\ body.timeout > 10
    /\ body.timeout <= 1000
    /\ body.max_concurrency >= 1
    /\ body.max_concurrency <= 512

\* nothing run, an empty registry file, no whitelist restriction
InitOpsIdle ==
    /\ executed = <<>>
    /\ registry = <<>>
    /\ calls = <<>>
    /\ response = [kind |-> "none"]
    /\ whitelist = OpenWhitelist
    /\ bucket = 0

InitReqIdle ==
    /\ request = [path |-> "-"]
    /\ http = 0
    /\ InitOpsIdle

InitDuoIdle ==
    /\ scans = <<>>
    /\ sems = <<>>

\* no SSH session
InitNoSession ==
    /\ token = [present |-> FALSE, bearer |-> FALSE, body |-> None]
    /\ settings = [jwt_secret |-> FALSE, app_token |-> ""]
    /\ InitSshIdle

\* no scan of the single-scan model
InitNoScan ==
    /\ scan_method = "ssh"
    /\ targets = <<"10.0.0.1">>
    /\ max_concurrency = 1
    /\ InitScanIdle

RequestInit ==
    /\ request \in DiscoverRequests
    /\ http = 0
    /\ scan_method = "ssh"
    /\ targets = <<>>
    /\ max_concurrency = request.max_concurrency
    /\ gen = "init"
    /\ es = "received"
    /\ events = <<>>
    /\ disconnected = FALSE
    /\ semaphore = 0
    /\ ping = NoPing
    /\ stdout = <<>>
    /\ pos = 1
    /\ found_hosts = {}
    /\ todo = {}
    /\ InitNoSession
    /\ InitDuoIdle
    /\ InitOpsIdle

\* FastAPI builds payload: DiscoverRequest from the body before it calls
\* discover_stream, and answers 422 when a field is out of range
DiscoverRequestValidate ==
    /\ request.path = "/api/discover"
    /\ es = "received"
    /\ IF DiscoverRequest(request)
       THEN es' = "validated" /\ http' = http
       ELSE es' = "rejected" /\ http' = 422
    /\ UNCHANGED <<duoVars, sshVars, opsVars, request, scan_method, targets,
                   max_concurrency, gen, events, disconnected, semaphore,
                   ping, stdout, pos, found_hosts, todo>>

\* discover_stream: targets = get_targets_from_request(payload), then
\* return StreamingResponse(event_generator(), ...)
discover_stream ==
    /\ request.path = "/api/discover"
    /\ es = "validated"
    /\ LET resolved == get_targets_from_request(request)
       IN  IF resolved.status = 400
           THEN es' = "rejected" /\ http' = 400 /\ targets' = targets
           ELSE es' = "streaming" /\ http' = 200 /\ targets' = resolved.targets
    /\ UNCHANGED <<duoVars, sshVars, opsVars, request, scan_method, max_concurrency,
                   gen, events, disconnected, semaphore, ping, stdout, pos,
                   found_hosts, todo>>

RequestNext ==
    \/ DiscoverRequestValidate
    \/ discover_stream
    \/ DiscoverStart
    \/ ClientDisconnect
    \/ AsCompleted

(***************************************************************************)
(* Two ARP scans served at the same time: the ping phase of each           *)
(* (discover_by_arp is entered once per request; every call runs its own   *)
(* semaphore = asyncio.Semaphore(payload.max_concurrency))                 *)
(***************************************************************************)
ScanIds == {1, 2}

DuoTargetLists == {t \in TargetLists : Len(t) <= 2}

\* the call of discover_by_arp has yielded its first event
DuoScans ==
    [max_concurrency : 1..MaxConc, targets : DuoTargetLists, gen : {"started"},
     semaphore : {0}, ping : {NoPing}]

DuoInit ==
    /\ scans \in [ScanIds -> DuoScans]
    /\ sems = <<>>
    /\ InitNoScan
    /\ InitNoSession
    /\ InitReqIdle

\* the same with one semaphore object for the whole module
DuoArpGather_SharedSemaphore(s) ==
    /\ scans[s].gen = "started"
    /\ sems' = IF sems = <<>> THEN <<scans[s].max_concurrency>> ELSE sems
    /\ scans' = [scans EXCEPT
                    ![s].gen = "gather",
                    ![s].semaphore = 1,
                    ![s].ping = [ip \in IPs |->
                                    IF ip \in Range(scans[s].targets)
                                    THEN "waiting" ELSE "none"]]
    /\ UNCHANGED <<reqVars, scanVars, sshVars>>

\* semaphore = asyncio.Semaphore(payload.max_concurrency): a new object of
\* this call; asyncio.gather(*(safe_ping(ip) for ip in targets), ...)
DuoArpGather(s) ==
    /\ scans[s].gen = "started"
    /\ sems' = Append(sems, scans[s].max_concurrency)
    /\ scans' = [scans EXCEPT
                    ![s].gen = "gather",
                    ![s].semaphore = Len(sems) + 1,
                    ![s].ping = [ip \in IPs |->
                                    IF ip \in Range(scans[s].targets)
                                    THEN "waiting" ELSE "none"]]
    /\ UNCHANGED <<reqVars, scanVars, sshVars>>

\* safe_ping of scan s: async with semaphore (acquire), ping_host starts
duo_safe_ping_acquire(s, ip) ==
    /\ scans[s].gen = "gather"
    /\ scans[s].ping[ip] = "waiting"
    /\ sems[scans[s].semaphore] > 0
    /\ sems' = [sems EXCEPT ![scans[s].semaphore] = @ - 1]
    /\ scans' = [scans EXCEPT ![s].ping[ip] = "pinging"]
    /\ UNCHANGED <<reqVars, scanVars, sshVars>>

\* safe_ping of scan s: ping_host is over, the permit is released
duo_safe_ping_release(s, ip) ==
    /\ scans[s].gen = "gather"
    /\ scans[s].ping[ip] = "pinging"
    /\ sems' = [sems EXCEPT ![scans[s].semaphore] = @ + 1]
    /\ scans' = [scans EXCEPT ![s].ping[ip] = "done"]
    /\ UNCHANGED <<reqVars, scanVars, sshVars>>

\* gather of scan s has every result: the second log event
DuoArpTableUpdated(s) ==
    /\ scans[s].gen = "gather"
    /\ \A ip \in Range(scans[s].targets) : scans[s].ping[ip] = "done"
    /\ scans' = [scans EXCEPT ![s].gen = "log2"]
    /\ UNCHANGED <<reqVars, scanVars, sshVars, sems>>

DuoNext ==
    \/ \E s \in ScanIds : DuoArpGather(s)
    \/ \E s \in ScanIds, ip \in IPs : duo_safe_ping_acquire(s, ip)
    \/ \E s \in ScanIds, ip \in IPs : duo_safe_ping_release(s, ip)
    \/ \E s \in ScanIds : DuoArpTableUpdated(s)

(***************************************************************************)
(* GET /info                                                               *)
(***************************************************************************)
\* token stands for the Authorization header of the request: absent, or a
\* string with or without the "Bearer " prefix in front of its text
InfoInit ==
    /\ request = [path |-> "/info"]
    /\ http = 0
    /\ token \in QueryTokens
    /\ settings \in Settings
    /\ InitNoScan
    /\ InitSshIdle
    /\ InitDuoIdle
    /\ InitOpsIdle

\* async def get_host_info() -> HostInfo: return collect_host_info()
\* The parameter  _: AuthContext = Depends(require_role("readonly"))  is
\* commented out, so no header is read and the handler always answers.
get_host_info ==
    /\ request.path = "/info"
    /\ http = 0
    /\ http' = 200
    /\ UNCHANGED <<duoVars, scanVars, sshVars, opsVars, request>>

InfoNext == get_host_info

(***************************************************************************)
(* Specifications                                                          *)
(***************************************************************************)
\* one scan request; no SSH session
Init ==
    /\ InitScan
    /\ token = [present |-> FALSE, bearer |-> FALSE, body |-> None]
    /\ settings = [jwt_secret |-> FALSE, app_token |-> ""]
    /\ InitSshIdle
    /\ InitReqIdle
    /\ InitDuoIdle

Next == NextScan

Spec == Init /\ [][Next]_vars

\* one SSH WebSocket session; no scan
SshInit ==
    /\ InitSsh
    /\ scan_method = "ssh"
    /\ targets = <<"10.0.0.1">>
    /\ max_concurrency = 1
    /\ InitScanIdle
    /\ InitReqIdle
    /\ InitDuoIdle

SshNext == NextSsh

\* the event loop runs every task that is ready
SshSpec ==
    /\ SshInit
    /\ [][SshNext]_vars
    /\ WF_vars(Handler)
    /\ WF_vars(ReadPump)
    /\ WF_vars(WritePump)

\* two ARP scans in their ping phase
DuoSpec == DuoInit /\ [][DuoNext]_vars

\* one GET /info request
InfoSpec == InfoInit /\ [][InfoNext]_vars

\* one POST /api/discover request from its arrival; no SSH session
RequestSpec == RequestInit /\ [][RequestNext]_vars


(***************************************************************************)
(* Properties of the discovery stream                                      *)
(***************************************************************************)
Results == {i \in 1..Len(events) : events[i].type = "result"}
ResultsFor(ip) == {i \in Results : events[i].ip = ip}
Sentinels == {i \in 1..Len(events) : events[i] = FIN}
StreamOver == es \in {"done", "failed"}
EndsWithSentinel == Len(events) > 0 /\ events[Len(events)] = FIN
InFlight == Cardinality({ip \in IPs : ping[ip] = "pinging"})

\* C1: when the stream of a ping or ssh scan is over and the client has stayed
\* connected, it holds exactly one result event per target, N in all, and
\* the FIN_ESCANEADO log event comes after all of them.
C1_OneResultPerTarget ==
    (StreamOver /\ ~disconnected /\ scan_method \in {"ping", "ssh"}) =>
        /\ \A ip \in Range(targets) : Cardinality(ResultsFor(ip)) = 1
        /\ Cardinality(Results) = Len(targets)
        /\ EndsWithSentinel

\* C2: in every state of a scan the number of probe operations in flight is
\* at most max_concurrency.
C2_InFlightBounded == InFlight <= max_concurrency

\* C2 witness: all permits are taken and a further probe is waiting
C2_Saturated ==
    /\ InFlight = max_concurrency
    /\ \E ip \in IPs : ping[ip] = "waiting"

\* C3: a scan that ran to its natural end with the client connected has
\* emitted exactly one FIN_ESCANEADO log event, and it is the last event.
C3_SentinelLast ==
    (es = "done" /\ ~disconnected) =>
        /\ Cardinality(Sentinels) = 1
        /\ EndsWithSentinel

\* C3 witness: a scan ended naturally, with its sentinel
C3_CompletedScan ==
    /\ es = "done"
    /\ ~disconnected
    /\ gen = "exhausted"
    /\ EndsWithSentinel

\* the MACs (as the results carry them) of the table entries of an address
TableMacs(ip) ==
    {NormalizeMac(stdout[i].mac) : i \in {j \in 1..Len(stdout) : stdout[j].ip = ip}}

\* C4: in an ARP scan no target ever has more than one result; when the scan
\* is over, a target in the table read has one active result with the MAC of
\* its entry, and every other target has one inactive result.
C4_ArpOneResultPerTarget ==
    scan_method = "arp" =>
        /\ \A ip \in Range(targets) : Cardinality(ResultsFor(ip)) <= 1
        /\ (es = "done" /\ ~disconnected) =>
              \A ip \in Range(targets) :
                  /\ Cardinality(ResultsFor(ip)) = 1
                  /\ \A i \in ResultsFor(ip) :
                        IF TableMacs(ip) # {}
                        THEN events[i].status = "active" /\ events[i].mac \in TableMacs(ip)
                        ELSE events[i].status = "inactive"

\* C10: an ssh scan whose stream is over (client connected) has a result with
\* method ssh for every target, inactive where the connect failed, and the
\* stream ends with FIN_ESCANEADO.
C10_SshProbeFailureKeepsScan ==
    (StreamOver /\ ~disconnected /\ scan_method = "ssh") =>
        /\ \A ip \in Range(targets) :
              \E i \in ResultsFor(ip) :
                  events[i].method = "ssh" /\ events[i].status \in {"active", "inactive"}
        /\ EndsWithSentinel

(***************************************************************************)
(* Properties of the SSH WebSocket session                                 *)
(***************************************************************************)
\* the client closed its WebSocket in a live session, the remote side stayed
\* up and nobody cancelled the handler
ClientLeftScenario ==
    /\ hist.client_left_live
    /\ ~hist.remote_closed
    /\ hist.via # "cancelled"

C5_AtReturn ==
    (hpc = "returned" /\ ClientLeftScenario) =>
        /\ write_task = "returned"
        /\ read_task \in Finished
        /\ hist.alive_at_close = {}
        /\ conn.closes = 1

C6_PumpsJoinedBeforeClose == hist.alive_at_close = {}

\* C7: when the handler is over, a remote connection it obtained is not left
\* open, and it was closed at most once.
C7_NoConnectionLeftOpen ==
    hpc \in HandlerOver => (~conn.is_connected /\ conn.closes <= 1)

\* C7 witness: opening the shell failed with the transport up, and the
\* connection was closed by the cleanup
C7_ClosedAfterFailure ==
    /\ hpc = "returned"
    /\ hist.via = "exc"
    /\ conn.closes = 1

\* the token values C8 lists: missing, empty, malformed, wrongly signed,
\* expired, or valid with the readonly role
ListedBadToken ==
    \/ ~token.present
    \/ token.body.kind = "empty"
    \/ token.body.kind = "opaque" /\ token.body.text # settings.app_token
    \/ token.body.kind = "jwt" /\ token.body.sig = "bad"
    \/ token.body.kind = "jwt" /\ token.body.sig = "ok" /\ token.body.exp = "expired"
    \/ /\ token.body.kind = "jwt" /\ token.body.sig = "ok"
       /\ token.body.exp = "fresh" /\ token.body.role = "readonly"

\* C8: for each of these token values the endpoint closes the WebSocket with
\* code 1008 (the token check returns false and does not raise).
C8_BadTokenClosed1008 ==
    (hpc # "validate" /\ ListedBadToken) =>
        (hpc = "rejected" /\ ws.close_code = 1008)

\* a valid admin token: the static APP_TOKEN, or a JWT that is well signed,
\* not expired and carries the role admin
ValidAdminToken ==
    /\ token.present
    /\ \/ /\ token.body.kind = "opaque"
          /\ settings.app_token # ""
          /\ token.body.text = settings.app_token
       \/ /\ token.body.kind = "jwt"
          /\ settings.jwt_secret
          /\ token.body.sig = "ok"
          /\ token.body.exp = "fresh"
          /\ token.body.role = "admin"

\* C9: accept(), the credential lookup and the SSH connection happen only
\* for a valid admin token.
C9_SideEffectsNeedAdmin ==
    (ws.accepted \/ hist.lookups > 0 \/ conn.obtained \/ conn.is_connected
        \/ channel.opened) => ValidAdminToken

\* C9 witness: a shell was opened for a JWT of role admin
C9_AdminShell ==
    /\ channel.opened
    /\ token.body.kind = "jwt"

(***************************************************************************)
(* Properties of the request validation and of the resolver                *)
(***************************************************************************)
\* the body passed DiscoverRequest and get_targets_from_request has answered
Resolved ==
    /\ request.path = "/api/discover"
    /\ es \notin {"received", "validated"}
    /\ http # 422

\* nothing of the scan has happened: no event, no probe
NothingStarted ==
    /\ events = <<>>
    /\ gen = "init"
    /\ ping = NoPing

\* the number of addresses of a block that can be given to a host
UsableHosts(network) ==
    CASE network.hostbits = 0 -> 1
      [] network.hostbits = 1 -> 2
      [] network.hostbits > 1 /\ network.ver = 4 -> Pow2(network.hostbits) - 2
      [] network.hostbits > 1 /\ network.ver = 6 -> Pow2(network.hostbits) - 1

\* every entry of payload.hosts is blank or spells an address
HostsParse ==
    \A i \in 1..Len(request.hosts) :
        request.hosts[i].form \in {"canon", "alt", "blank"}

\* C11: a network of more than 4096 usable host addresses is answered with
\* 400, with no event emitted and no probe started; a network of at most
\* 4096 usable host addresses is accepted (the request is served unless an
\* explicit host is invalid).
C11_NetworkSizeCap ==
    (Resolved /\ request.network.kind = "cidr") =>
        /\ UsableHosts(request.network) > 4096 =>
              (http = 400 /\ es = "rejected" /\ NothingStarted)
        /\ (UsableHosts(request.network) <= 4096 /\ HostsParse) =>
              (http = 200 /\ es # "rejected"
               /\ Len(targets) >= UsableHosts(request.network))

C11_LargeNetworkRejected ==
    /\ Resolved
    /\ request.network.kind = "cidr"
    /\ UsableHosts(request.network) > 4096
    /\ http = 400

\* the body has one of the defects the resolver looks for: a network
\* ip_network refuses, a host that is not an address, or no target at all
ValidationFailure ==
    \/ request.network.kind = "bad"
    \/ \E i \in 1..Len(request.hosts) : request.hosts[i].form = "bad"
    \/ /\ request.network.kind = "none"
       /\ \A i \in 1..Len(request.hosts) : request.hosts[i].form = "blank"

\* C12: a malformed network, a host that is not an IP address (whatever
\* else the body holds) and a body yielding no target are each answered with
\* a 4xx status before any event is emitted and before any probe is started;
\* once the stream has begun the status is 200 and stays so.
C12_ValidationBeforeStream ==
    request.path = "/api/discover" =>
        /\ (Resolved /\ ValidationFailure) =>
              (http = 400 /\ es = "rejected" /\ NothingStarted)
        /\ (events # <<>> \/ es \in {"streaming", "done", "failed"}) =>
              (http = 200 /\ ~ValidationFailure)

C12_InvalidHostAmongValid ==
    /\ Resolved
    /\ request.network.kind = "cidr"
    /\ Len(request.hosts) = 2
    /\ request.hosts[1].form = "canon"
    /\ request.hosts[2].form = "bad"
    /\ http = 400

\* the strings the resolver collects, in the order it meets them: the hosts
\* of the network, then the non-blank entries of payload.hosts
Collected ==
    LET addresses == hosts(request.network)
        given == SelectSeq([i \in 1..Len(request.hosts) |-> strip(request.hosts[i])],
                           LAMBDA host : host.form # "blank")
    IN  (IF request.network.kind = "cidr"
         THEN [i \in 1..Len(addresses) |-> StrOf(addresses[i])]
         ELSE <<>>) \o given

FirstAt(s, x) == Min({i \in 1..Len(s) : s[i] = x})

\* C13: the resolved target list holds no address twice, keeps first-seen
\* order (the hosts of the network ascending, then the explicit hosts in
\* the order given, each at its first occurrence), and resolving the same
\* body again gives the same list.
C13_NoAddressTwice ==
    (Resolved /\ http = 200) =>
        LET collected == Collected
            k == IF request.network.kind = "cidr"
                 THEN Len(hosts(request.network)) ELSE 0
        IN  /\ Cardinality({ip_address(targets[i]) : i \in 1..Len(targets)})
                  = Len(targets)
            /\ \A i \in 1..k : targets[i] = collected[i]
            /\ \A i \in (k + 1)..(Len(targets) - 1) :
                  FirstAt(collected, targets[i]) < FirstAt(collected, targets[i + 1])
            /\ get_targets_from_request(request).targets = targets

(***************************************************************************)
(* Properties of the event streamer and of the semaphore                   *)
(***************************************************************************)
\* the log and result events of the probe stream among the events delivered
ProbeEvents(delivered) == SelectSeq(delivered, LAMBDA e : e # FIN)

\* event_generator has left its loop by the break
Detected == es = "done" /\ gen # "exhausted"

\* C14: the disconnect check precedes every event of the probe stream: while
\* the client is gone no further log or result event is delivered, and once
\* the streamer has seen it the discovery generator is not advanced again.
C14_DisconnectStopsStream ==
    [][/\ disconnected => ProbeEvents(events') = ProbeEvents(events)
       /\ Detected => /\ gen' = gen
                      /\ events' = events
                      /\ <<semaphore, ping, stdout, pos, found_hosts, todo>>' =
                            <<semaphore, ping, stdout, pos, found_hosts, todo>>]_vars

C14_CutMidScan ==
    /\ Detected
    /\ disconnected
    /\ gen = "table"
    /\ Results # {}

DuoInFlight(s) == {ip \in IPs : scans[s].ping[ip] = "pinging"}

\* C15: the semaphore belongs to one scan: the permits free for the probes
\* of a scan are its own max_concurrency less its own probes in flight,
\* whatever another scan running at the same time holds.
C15_ScanScopedSemaphore ==
    \A s \in DOMAIN scans :
        scans[s].gen = "gather" =>
            /\ sems[scans[s].semaphore] =
                  scans[s].max_concurrency - Cardinality(DuoInFlight(s))
            /\ \A t \in DOMAIN scans \ {s} :
                  scans[t].semaphore # scans[s].semaphore

C15_BothScansProbing ==
    /\ DOMAIN scans = ScanIds
    /\ scans[1].gen = "gather"
    /\ scans[2].gen = "gather"
    /\ Cardinality(DuoInFlight(1)) = scans[1].max_concurrency
    /\ \E ip \in IPs : scans[1].ping[ip] = "waiting"
    /\ DuoInFlight(2) # {}

\* C16: a probe holds a permit exactly while its network operation runs:
\* the free permits are max_concurrency less the probes in flight, and when
\* every probe has finished all max_concurrency permits are free again.  In
\* a ping or ssh scan no probe is ever started, so none holds a permit.
C16_PermitsHeldOnlyWhileProbing ==
    /\ (scan_method = "arp" /\ gen \notin {"init", "started"}) =>
          /\ semaphore = max_concurrency - InFlight
          /\ (\A ip \in Range(targets) : ping[ip] \in PingOver) =>
                semaphore = max_concurrency
    /\ scan_method \in {"ping", "ssh"} => ping = NoPing

C16_AllPermitsBack ==
    /\ scan_method = "arp"
    /\ gen = "log2"
    /\ Len(targets) > max_concurrency
    /\ max_concurrency > 1
    /\ semaphore = max_concurrency

\* the targets in the order of their result events
ResultOrder ==
    LET results == SelectSeq(events, LAMBDA e : e.type = "result")
    IN  [i \in 1..Len(results) |-> results[i].ip]

\* C17: in a ping or ssh scan of two or more targets with max_concurrency of
\* two or more the probes run side by side and each result is delivered when
\* its probe completes: when the stream is over with the client connected,
\* the results are the targets, each once, in the order of completion (some
\* arrangement of the target list).
C17_ResultsInCompletionOrder ==
    (/\ scan_method \in {"ping", "ssh"}
     /\ Len(targets) >= 2
     /\ max_concurrency >= 2
     /\ es \in {"done", "failed"}
     /\ ~disconnected) =>
        /\ Len(ResultOrder) = Len(targets)
        /\ Range(ResultOrder) = Range(targets)

(***************************************************************************)
(* Properties of the request fields                                        *)
(***************************************************************************)
\* the body has been looked at by the validation of DiscoverRequest
Validated == request.path = "/api/discover" /\ es # "received"

\* a body refused for its fields has had no target resolved and no probe
RefusedEarly == http = 422 => (targets = <<>> /\ NothingStarted)

\* C18 as stated: the body is accepted exactly when timeout is within 0.1 s
\* to 10 s, both ends included, and max_concurrency within 1 to 512, both
\* ends included; otherwise it is refused before any target is resolved or
\* probed.
C18_InclusiveRanges ==
    Validated =>
        /\ http # 422 <=> /\ request.timeout >= 10
                          /\ request.timeout <= 1000
                          /\ request.max_concurrency >= 1
                          /\ request.max_concurrency <= 512
        /\ RefusedEarly

\* C18 amended: the body is accepted exactly when timeout is above 0.1 s and
\* at most 10 s (0.1 s itself is refused) and max_concurrency is within 1 to
\* 512, both ends included; otherwise it is refused with 422 before any
\* target is resolved or probed.
C18_FieldRanges ==
    Validated =>
        /\ http # 422 <=> /\ request.timeout > 10
                          /\ request.timeout <= 1000
                          /\ request.max_concurrency >= 1
                          /\ request.max_concurrency <= 512
        /\ RefusedEarly

C18_TimeoutAtLowerEnd ==
    /\ Validated
    /\ request.timeout = 10
    /\ request.max_concurrency = 512
    /\ http = 422

(***************************************************************************)
(* Properties of the Raspberry Pi classification                           *)
(***************************************************************************)
\* str.lower() on one hexadecimal digit
Lower(c) ==
    CASE c = "A" -> "a" [] c = "B" -> "b" [] c = "C" -> "c"
      [] c = "D" -> "d" [] c = "E" -> "e" [] c = "F" -> "f"
      [] OTHER -> c

\* the hexadecimal digits of a MAC string, lower case, separators dropped
HexDigits(mac) ==
    SelectSeq([i \in 1..Len(mac) |-> Lower(mac[i])],
              LAMBDA c : c \notin {":", "-"})

\* the first three octets: the vendor part of the address
Oui(mac) == SubSeq(HexDigits(mac), 1, 6)

PiOuis ==
    { <<"2","8","c","d","c","1">>, <<"b","8","2","7","e","b">>,
      <<"d","c","a","6","3","2">>, <<"e","4","5","f","0","1">>,
      <<"d","8","3","a","d","d">>, <<"2","c","c","f","6","7">>,
      <<"8","8","a","2","9","e">> }

\* C19: an entry of the ARP table is reported as a Raspberry Pi exactly when
\* its MAC address, whatever its letter case and with hyphens or colons
\* between the octets, begins with one of the listed vendor prefixes
\* (b8-27-eb... and B8:27:EB... are, 00:11:22... is not); a target without
\* an entry is not.
C19_PiByMacPrefix ==
    \A i \in Results :
        /\ events[i].status = "active" =>
              \E k \in 1..Len(stdout) :
                 /\ stdout[k].ip = events[i].ip
                 /\ HexDigits(stdout[k].mac) = HexDigits(events[i].mac)
                 /\ events[i].is_raspberry_pi <=> Oui(stdout[k].mac) \in PiOuis
        /\ events[i].status = "inactive" => ~events[i].is_raspberry_pi

C19_BothKindsReported ==
    /\ \E i \in Results :
          /\ events[i].is_raspberry_pi
          /\ \E k \in 1..Len(stdout) :
                /\ stdout[k].ip = events[i].ip
                /\ stdout[k].mac = <<"b","8","-","2","7","-","e","b","-","0","1">>
    /\ \E i \in Results :
          /\ events[i].status = "active"
          /\ ~events[i].is_raspberry_pi

(***************************************************************************)
(* Properties of GET /info                                                 *)
(***************************************************************************)
\* the request carries no bearer token
NoBearerToken ==
    \/ ~token.present
    \/ ~token.bearer
    \/ token.body.kind \in {"none", "empty"}

\* the request carries a bearer token that is valid for role readonly
ReadonlyBearerToken ==
    /\ token.present
    /\ token.bearer
    /\ token.body.kind \notin {"none", "empty"}
    /\ validate_token(token.body, "readonly", settings) = "true"

\* C20: GET /info without a bearer token is answered 401; with a valid
\* token of role readonly or higher it is answered 200 with the host
\* information.
C20_InfoRequiresToken ==
    (request.path = "/info" /\ http # 0) =>
        /\ NoBearerToken => http = 401
        /\ ReadonlyBearerToken => http = 200

(***************************************************************************)
(* Reboot and poweroff, local (app/main.py, app/system_ops.py) and on a    *)
(* registered device (app/devices_api.py, app/ssh_manager.py)              *)
(***************************************************************************)
\* _parse_authorization_header: None without a header, without the
\* "Bearer " prefix, or with nothing after it
_parse_authorization_header(authorization) ==
    IF ~authorization.present THEN None
    ELSE IF ~authorization.bearer THEN None
    ELSE IF authorization.body.kind = "empty" THEN None
    ELSE authorization.body

\* require_role(required).dependency: 0 when it returns the context, else
\* the status of the HTTPException it raises
require_role(authorization, required, st) ==
    LET context == _authenticate_token(_parse_authorization_header(authorization), st)
    IN  IF context.tag = "raise" THEN context.status
        ELSE IF context.tag = "none" THEN 401
        ELSE IF ~_role_allows(context.role, required) THEN 403
        ELSE 0

\* REBOOT_BIN, POWEROFF_BIN
REBOOT_BIN == "/sbin/reboot"
POWEROFF_BIN == "/sbin/poweroff"

\* a command that has been run: on the host itself or over a connection
Ran(where, cmd) == [where |-> where, cmd |-> cmd]

\* the X-Confirm header: Header(None, alias="X-Confirm")
Confirms == {Null, "", "REBOOT", "POWEROFF", "reboot", "poweroff", "yes"}

\* the registry file of the remote endpoints: a device with its password,
\* one without; "ghost" is not registered
Dev(id, name, ssh_pass) == [id |-> id, name |-> name, ssh_pass |-> ssh_pass]
StoredDevices == <<Dev("pi-1", "lab", "raspberry"), Dev("pi-2", "attic", Null)>>
DeviceIds == {"pi-1", "pi-2", "ghost"}

LocalPower == {"/system/reboot", "/system/poweroff"}
RemotePower == {"/api/devices/{device_id}/system/reboot",
                "/api/devices/{device_id}/system/poweroff"}

PowerRequests ==
    [path : LocalPower, confirm : Confirms, device_id : {Null}]
    \cup [path : RemotePower, confirm : Confirms, device_id : DeviceIds]

\* token stands for the Authorization header of the request
PowerInit ==
    /\ request \in PowerRequests
    /\ http = 0
    /\ token \in QueryTokens
    /\ settings \in Settings
    /\ executed = <<>>
    /\ registry = StoredDevices
    /\ calls = <<>>
    /\ response = [kind |-> "none"]
    /\ whitelist = OpenWhitelist
    /\ bucket = 0
    /\ InitNoScan
    /\ InitSshIdle
    /\ InitDuoIdle

sshRest == <<token, settings, hpc, ws, client, channel, read_task, write_task,
             pending, hist>>
opsRest == <<request, registry, calls, response, whitelist, bucket>>

\* the confirmation reduced to the presence of the X-Confirm header
Confirmed_AnyValue(confirm, word) == confirm # Null

\* if confirm != "REBOOT": raise HTTPException(400)
Confirmed(confirm, word) == confirm = word

\* registry.get_device: the first stored device with the id, or nothing
get_device(reg, device_id) ==
    LET at == {i \in 1..Len(reg) : reg[i].id = device_id}
    IN  IF at = {} THEN [found |-> FALSE, device |-> Dev(Null, Null, Null)]
        ELSE [found |-> TRUE,
              device |-> reg[CHOOSE i \in at : \A j \in at : i <= j]]

\* ssh_manager.get_ssh_connection: 404 for an unknown device, 409 for one
\* without a password, else a Connection object (0), not yet connected
get_ssh_connection(reg, device_id) ==
    LET d == get_device(reg, device_id)
    IN  IF ~d.found THEN 404
        ELSE IF d.device.ssh_pass \in {Null, ""} THEN 409
        ELSE 0

\* system_reboot / system_poweroff: the admin dependency is resolved before
\* the body; then the header check; then await reboot() / poweroff()
LocalPowerOp(path, word, bin) ==
    /\ request.path = path
    /\ http = 0
    /\ LET denied == require_role(token, "admin", settings)
       IN  IF denied # 0
           THEN http' = denied /\ executed' = executed
           ELSE IF ~Confirmed(request.confirm, word)
           THEN http' = 400 /\ executed' = executed
           ELSE http' = 200 /\ executed' = Append(executed, Ran("local", bin))
    /\ UNCHANGED <<duoVars, scanVars, sshVars, opsRest>>

system_reboot == LocalPowerOp("/system/reboot", "REBOOT", REBOOT_BIN)

system_poweroff == LocalPowerOp("/system/poweroff", "POWEROFF", POWEROFF_BIN)

\* remote_system_reboot / remote_system_poweroff (no dependency): the header
\* check; get_ssh_connection, whose HTTPException is caught by "except
\* Exception" and answered 502; result = remote_reboot(conn) is called
\* without await in a plain def, so result is a coroutine that never runs:
\* no command is sent and the connection is never opened; the finally
\* clause finds conn.is_connected false; the coroutine fails the
\* response_model validation (500)
RemotePowerOp(path, word, bin) ==
    /\ request.path = path
    /\ http = 0
    /\ IF ~Confirmed(request.confirm, word)
       THEN http' = 400 /\ conn' = conn
       ELSE IF get_ssh_connection(registry, request.device_id) # 0
       THEN http' = 502 /\ conn' = conn
       ELSE http' = 500 /\ conn' = [conn EXCEPT !.obtained = TRUE]
    /\ executed' = executed
    /\ UNCHANGED <<duoVars, scanVars, sshRest, opsRest>>

remote_system_reboot ==
    RemotePowerOp("/api/devices/{device_id}/system/reboot", "REBOOT", REBOOT_BIN)

remote_system_poweroff ==
    RemotePowerOp("/api/devices/{device_id}/system/poweroff", "POWEROFF",
                  POWEROFF_BIN)

PowerNext ==
    \/ system_reboot
    \/ system_poweroff
    \/ remote_system_reboot
    \/ remote_system_poweroff

PowerSpec == PowerInit /\ [][PowerNext]_vars

\* the word the endpoint of the request asks for
ConfirmWord ==
    IF request.path \in {"/system/reboot", "/api/devices/{device_id}/system/reboot"}
    THEN "REBOOT" ELSE "POWEROFF"

PowerBin == IF ConfirmWord = "REBOOT" THEN REBOOT_BIN ELSE POWEROFF_BIN

Unconfirmed ==
    /\ request.path \in LocalPower \cup RemotePower
    /\ http # 0
    /\ request.confirm # ConfirmWord

NothingDone ==
    /\ executed = <<>>
    /\ ~conn.obtained
    /\ ~conn.is_connected

\* C21 as stated: a reboot or poweroff is executed only when the X-Confirm
\* header has the exact value; every request without it is answered 400,
\* executes no command and opens no SSH connection.
C21_UnconfirmedAnswered400 ==
    /\ \A i \in 1..Len(executed) :
          executed[i].cmd = PowerBin /\ request.confirm = ConfirmWord
    /\ Unconfirmed => (http = 400 /\ NothingDone)

\* C21: a reboot or poweroff is executed only when the X-Confirm header has
\* the exact value.  A request without it executes no command and opens no
\* SSH connection; it is answered 400 on the remote endpoints and, on the
\* local endpoints, 400 when it carries an admin token and otherwise the
\* 401 or 403 of the admin dependency, which is resolved first.
C21_ConfirmGuardsPower ==
    /\ \A i \in 1..Len(executed) :
          executed[i].cmd = PowerBin /\ request.confirm = ConfirmWord
    /\ Unconfirmed =>
          /\ NothingDone
          /\ request.path \in RemotePower => http = 400
          /\ request.path \in LocalPower =>
                LET denied == require_role(token, "admin", settings)
                IN  http = IF denied # 0 THEN denied ELSE 400

\* an admin asks for a local reboot with the word in lower case: 400
C21_WrongCaseRefused ==
    /\ request.path = "/system/reboot"
    /\ request.confirm = "reboot"
    /\ require_role(token, "admin", settings) = 0
    /\ http = 400
    /\ executed = <<>>

(***************************************************************************)
(* The device registry (app/registry.py) behind the routes of the          *)
(* application (app/main.py 72-74, app/devices_api.py).  The handlers are   *)
(* plain def functions, which the framework runs in worker threads: two    *)
(* requests can be between their _load_registry and their _save_registry   *)
(* at the same time.                                                       *)
(***************************************************************************)
MaxRequests == 2

\* the requests being served at the same time
Slots == {1, 2}

\* uuid.uuid4() of the n-th device created
Uuids == <<"u1", "u2", "u3", "u4">>

\* a field the body does not set (model_dump(exclude_unset=True) omits it)
Unset == "unset"

RegistryRequests ==
    {[method |-> "POST", path |-> "/api/devices/", id |-> Null,
      name |-> "pi", ssh_pass |-> "pw1"],
     [method |-> "GET", path |-> "/api/devices/", id |-> Null,
      name |-> Null, ssh_pass |-> Null]}
    \cup [method : {"GET", "DELETE"}, path : {"/api/devices/{device_id}"},
          id : {"d0", "u1"}, name : {Null}, ssh_pass : {Null}]
    \cup [method : {"PUT"}, path : {"/api/devices/{device_id}"},
          id : {"d0", "u1"}, name : {"renamed"}, ssh_pass : {Unset}]
    \cup {[method |-> "POST", path |-> "/registry/devices", id |-> "test-pi",
           name |-> "Test Pi", ssh_pass |-> Null],
          [method |-> "GET", path |-> "/registry/devices", id |-> Null,
           name |-> Null, ssh_pass |-> Null],
          [method |-> "DELETE", path |-> "/registry/devices/{device_id}",
           id |-> "test-pi", name |-> Null, ssh_pass |-> Null]}

NoBody == [kind |-> "none", devices |-> <<>>]
DeviceBody(d) == [kind |-> "device", devices |-> <<d>>]
ListBody(ds) == [kind |-> "list", devices |-> ds]

NoRequest == [method |-> "-", path |-> "-", id |-> Null, name |-> Null,
              ssh_pass |-> Null]

IdleCall == [req |-> NoRequest, pos |-> "idle", loaded |-> <<>>, http |-> 0,
             response |-> NoBody, overlapped |-> FALSE]

\* the registry file as the program has left it: no device, or one device
\* stored with its password
RegistryInit ==
    /\ registry \in {<<>>, <<Dev("d0", "pi-zero", "pw0")>>}
    /\ calls = [received |-> 0, created |-> 0, run |-> [c \in Slots |-> IdleCall]]
    /\ token \in {[present |-> FALSE, bearer |-> FALSE, body |-> None],
                  [present |-> TRUE, bearer |-> TRUE,
                   body |-> Tok("opaque", "s3cret", "", "", "")]}
    /\ settings = [jwt_secret |-> FALSE, app_token |-> "s3cret"]
    /\ request = [path |-> "-"]
    /\ http = 0
    /\ executed = <<>>
    /\ response = [kind |-> "none"]
    /\ whitelist = OpenWhitelist
    /\ bucket = 0
    /\ InitNoScan
    /\ InitSshIdle
    /\ InitDuoIdle

regRest == <<request, http, executed, response, whitelist, bucket>>

InProgress(c) == calls.run[c].pos \notin {"idle", "done"}

Other(c) == CHOOSE d \in Slots : d # c

\* main.py 72-74 mounts ssh_ws.router, ai_analyzer.router and
\* devices_api.router (prefix /api); registry_api.router is mounted nowhere
\* and main.py declares no route under /registry
Route(req) ==
    IF req.path = "/api/devices/"
    THEN IF req.method = "GET" THEN "get_all_devices" ELSE "create_new_device"
    ELSE IF req.path = "/api/devices/{device_id}"
    THEN IF req.method = "GET" THEN "get_single_device"
         ELSE IF req.method = "PUT" THEN "update_existing_device"
         ELSE "delete_existing_device"
    ELSE "none"

\* the call in slot c answers
Answer(c, status, body) ==
    [calls.run[c] EXCEPT !.pos = "done", !.http = status, !.response = body]

SetRun(c, call) == [calls EXCEPT !.run[c] = call]

\* a request arrives while fewer than two are being served
Receive(c) ==
    /\ ~InProgress(c)
    /\ calls.received < MaxRequests
    /\ \E req \in RegistryRequests :
          LET both == InProgress(Other(c))
              mine == [IdleCall EXCEPT !.req = req, !.pos = "received",
                                       !.overlapped = both]
          IN  calls' = [calls EXCEPT
                          !.received = @ + 1,
                          !.run = [d \in Slots |->
                                     IF d = c THEN mine
                                     ELSE [calls.run[d] EXCEPT !.overlapped = both]]]
    /\ UNCHANGED <<duoVars, scanVars, sshVars, regRest, registry>>

\* no route matches the path: the router answers 404
not_found(c) ==
    /\ calls.run[c].pos = "received"
    /\ Route(calls.run[c].req) = "none"
    /\ calls' = SetRun(c, Answer(c, 404, NoBody))
    /\ UNCHANGED <<duoVars, scanVars, sshVars, regRest, registry>>

\* d.model_copy(update={"ssh_pass": None})
Hidden(d) == [d EXCEPT !.ssh_pass = Null]

\* list_devices
list_devices(reg) == [i \in 1..Len(reg) |-> Hidden(reg[i])]

\* get_all_devices: return registry.list_devices()
get_all_devices(c) ==
    /\ calls.run[c].pos = "received"
    /\ Route(calls.run[c].req) = "get_all_devices"
    /\ calls' = SetRun(c, Answer(c, 200, ListBody(list_devices(registry))))
    /\ UNCHANGED <<duoVars, scanVars, sshVars, regRest, registry>>

\* get_single_device: 404, or device.model_copy(update={"ssh_pass": None})
get_single_device(c) ==
    /\ calls.run[c].pos = "received"
    /\ Route(calls.run[c].req) = "get_single_device"
    /\ LET d == get_device(registry, calls.run[c].req.id)
       IN  calls' = SetRun(c, IF d.found
                              THEN Answer(c, 200, DeviceBody(Hidden(d.device)))
                              ELSE Answer(c, 404, NoBody))
    /\ UNCHANGED <<duoVars, scanVars, sshVars, regRest, registry>>

\* update_existing_device, lines 62-64: existing_device = get_device(id)
update_existing_device(c) ==
    /\ calls.run[c].pos = "received"
    /\ Route(calls.run[c].req) = "update_existing_device"
    /\ calls' = SetRun(c, IF get_device(registry, calls.run[c].req.id).found
                          THEN [calls.run[c] EXCEPT !.pos = "checked"]
                          ELSE Answer(c, 404, NoBody))
    /\ UNCHANGED <<duoVars, scanVars, sshVars, regRest, registry>>

\* upsert_device, first half: registry = _load_registry()
upsert_device_load(c) ==
    /\ \/ calls.run[c].pos = "received"
          /\ Route(calls.run[c].req) = "create_new_device"
       \/ calls.run[c].pos = "checked"
    /\ calls' = SetRun(c, [calls.run[c] EXCEPT !.pos = "loaded",
                                               !.loaded = registry])
    /\ UNCHANGED <<duoVars, scanVars, sshVars, regRest, registry>>

\* existing.model_copy(update=device_in.model_dump(exclude_unset=True))
Updated(existing, req) ==
    [existing EXCEPT
       !.name = IF req.name = Unset THEN @ ELSE req.name,
       !.ssh_pass = IF req.ssh_pass = Unset THEN @ ELSE req.ssh_pass]

\* Device(id=new_id, **device_in.model_dump()): an unset field takes its
\* default
Created(new_id, req) ==
    Dev(new_id, req.name, IF req.ssh_pass = Unset THEN Null ELSE req.ssh_pass)

\* upsert_device, second half: the device with the id is replaced in the
\* loaded copy, or a new device is appended to it; the copy is written over
\* the file; the handler returns the device as stored
upsert_device_save(c) ==
    /\ calls.run[c].pos = "loaded"
    /\ calls.run[c].req.method \in {"POST", "PUT"}
    /\ LET call == calls.run[c]
           loaded == call.loaded
           at == {i \in 1..Len(loaded) : loaded[i].id = call.req.id}
           first == CHOOSE i \in at : \A j \in at : i <= j
           new_id == IF call.req.id = Null THEN Uuids[calls.created + 1]
                     ELSE call.req.id
           device == IF call.req.id # Null /\ at # {}
                     THEN Updated(loaded[first], call.req)
                     ELSE Created(new_id, call.req)
           saved == IF call.req.id # Null /\ at # {}
                    THEN [loaded EXCEPT ![first] = device]
                    ELSE Append(loaded, device)
       IN  /\ registry' = saved
           /\ calls' = [calls EXCEPT
                          !.created = IF call.req.id = Null THEN @ + 1 ELSE @,
                          !.run[c] = Answer(c, IF call.req.method = "POST"
                                               THEN 201 ELSE 200,
                                            DeviceBody(device))]
    /\ UNCHANGED <<duoVars, scanVars, sshVars, regRest>>

\* delete_device, first half: registry = _load_registry()
delete_device_load(c) ==
    /\ calls.run[c].pos = "received"
    /\ Route(calls.run[c].req) = "delete_existing_device"
    /\ calls' = SetRun(c, [calls.run[c] EXCEPT !.pos = "loaded",
                                               !.loaded = registry])
    /\ UNCHANGED <<duoVars, scanVars, sshVars, regRest, registry>>

\* delete_device, second half: the filtered copy is written over the file
\* when it is shorter; delete_existing_device answers 204, or 404
delete_device_save(c) ==
    /\ calls.run[c].pos = "loaded"
    /\ calls.run[c].req.method = "DELETE"
    /\ LET call == calls.run[c]
           kept == SelectSeq(call.loaded, LAMBDA d : d.id # call.req.id)
       IN  IF Len(kept) < Len(call.loaded)
           THEN /\ registry' = kept
                /\ calls' = SetRun(c, Answer(c, 204, NoBody))
           ELSE /\ registry' = registry
                /\ calls' = SetRun(c, Answer(c, 404, NoBody))
    /\ UNCHANGED <<duoVars, scanVars, sshVars, regRest>>

RegistryNext ==
    \E c \in Slots :
        \/ Receive(c)
        \/ not_found(c)
        \/ get_all_devices(c)
        \/ get_single_device(c)
        \/ update_existing_device(c)
        \/ upsert_device_load(c)
        \/ upsert_device_save(c)
        \/ delete_device_load(c)
        \/ delete_device_save(c)

RegistrySpec == RegistryInit /\ [][RegistryNext]_vars

\* the ids stored in the registry file
StoredIds == {registry[i].id : i \in 1..Len(registry)}

AdminToken == require_role(token, "admin", settings) = 0

\* C22: the registry round trip through /registry: POST /registry/devices
\* with an admin token and an explicit id is answered 200 and the device is
\* stored; GET /registry/devices is answered 200; DELETE
\* /registry/devices/{id} of an absent device is answered 404.
C22_RegistryRoundTrip ==
    \A c \in Slots :
        LET call == calls.run[c]
        IN  (call.pos = "done" /\ AdminToken) =>
              /\ (call.req.path = "/registry/devices" /\ call.req.method = "POST")
                    => (call.http = 200 /\ call.req.id \in StoredIds)
              /\ (call.req.path = "/registry/devices" /\ call.req.method = "GET")
                    => call.http = 200
              /\ (call.req.path = "/registry/devices/{device_id}"
                  /\ call.req.id \notin StoredIds)
                    => call.http = 404

\* two calls that were being served at the same time have both returned
BothReturned ==
    \A c \in Slots : calls.run[c].pos = "done" /\ calls.run[c].overlapped

\* the device a call has stored, as its response shows it
StoredBy(c) == calls.run[c].response.devices[1].id

IsCreate(c) == calls.run[c].req.method = "POST" /\ calls.run[c].http = 201

IsDelete(c) == calls.run[c].req.method = "DELETE" /\ calls.run[c].http = 204

\* C28: registry updates are not lost under concurrency: after two
\* concurrent upsert_device calls for different new devices, or an upsert
\* and a delete of different devices, the registry reflects both; and no
\* two stored devices ever share an id.
C28_NoLostUpdate ==
    /\ \A i, j \in 1..Len(registry) : registry[i].id = registry[j].id => i = j
    /\ BothReturned =>
          \A c \in Slots :
             LET d == Other(c)
             IN  /\ (IsCreate(c) /\ IsCreate(d))
                       => {StoredBy(c), StoredBy(d)} \subseteq StoredIds
                 /\ (IsCreate(c) /\ IsDelete(d))
                       => /\ StoredBy(c) \in StoredIds
                          /\ calls.run[d].req.id \notin StoredIds

\* the device or devices a returned call shows in its response
Shown(c) ==
    LET body == calls.run[c].response
    IN  {body.devices[i] : i \in 1..Len(body.devices)}

\* C29: no device API response exposes a stored SSH password: in the list,
\* get-one, create and update responses ssh_pass is null, while the stored
\* registry entry keeps its password.
C29_PasswordNeverShown ==
    \A c \in Slots :
        calls.run[c].pos = "done" =>
            /\ \A d \in Shown(c) : d.ssh_pass = Null
            /\ (calls.run[c].req.method = "GET" /\ calls.received = 1
                /\ calls.run[c].http = 200) =>
                  \A d \in Shown(c) :
                     get_device(registry, d.id).device.ssh_pass # Null

(***************************************************************************)
(* POST /auth/login (app/main.py auth_login, app/auth.py) behind the       *)
(* per-minute rate limiter (app/rate_limit.py)                             *)
(***************************************************************************)
\* app.add_middleware(SimpleRateLimit, limit_per_min=300)
limit_per_min == 300

\* requests the client sends beyond the limit within one minute
MaxOver == 2

Usernames == {"admin", "viewer", ""}
Passwords == {"a-pass", "r-pass", ""}

\* Settings.from_env: ADMIN_USER (default "admin"), ADMIN_PASS, READONLY_USER
\* and READONLY_PASS (default ""), JWT_SECRET (default "": not set)
LoginSettings ==
    [jwt_secret : BOOLEAN, app_token : {""}, admin_user : {"admin"},
     admin_pass : {"a-pass", ""}, readonly_user : {"viewer", ""},
     readonly_pass : {"r-pass", ""}]

\* a credential check that looks at the user name only
credential_checker_UserOnly(username, password, st) ==
    IF username = st.admin_user THEN Ctx("admin")
    ELSE IF st.readonly_user # "" /\ username = st.readonly_user
    THEN Ctx("readonly")
    ELSE NoCtx

\* credential_checker: the admin pair first; the readonly pair only when
\* READONLY_USER is not empty
credential_checker(username, password, st) ==
    IF username = st.admin_user /\ password = st.admin_pass THEN Ctx("admin")
    ELSE IF st.readonly_user # "" /\ username = st.readonly_user
            /\ password = st.readonly_pass
    THEN Ctx("readonly")
    ELSE NoCtx

\* create_jwt: RuntimeError (None here) when JWT_SECRET is not set, else a
\* signed token that has not expired
create_jwt(role, st) ==
    IF ~st.jwt_secret THEN None ELSE Tok("jwt", "", "ok", "fresh", role)

NoLogin == [kind |-> "none"]
LoginResponse(tok, role) == [kind |-> "login", token |-> tok, role |-> role]

LoginInit ==
    /\ settings \in LoginSettings
    /\ token = [present |-> FALSE, bearer |-> FALSE, body |-> None]
    /\ request = [path |-> "-"]
    /\ http = 0
    /\ response = NoLogin
    /\ bucket = 0
    /\ executed = <<>>
    /\ registry = <<>>
    /\ calls = <<>>
    /\ whitelist = OpenWhitelist
    /\ InitNoScan
    /\ InitSshIdle
    /\ InitDuoIdle

loginRest == <<executed, registry, calls, whitelist>>

\* One POST /auth/login, the nth of its minute.  SimpleRateLimit.dispatch
\* counts the request and
\* raises HTTPException(429) when the count of the minute exceeds the limit;
\* raised inside a BaseHTTPMiddleware the exception is either rendered (429)
\* or reaches the server error handler (500).  Below the limit auth_login
\* runs: 401 without a context, 500 when create_jwt raises, else the token.
auth_login ==
    /\ bucket < limit_per_min + MaxOver
    /\ bucket' = bucket + 1
    /\ \E username \in Usernames, password \in Passwords :
          /\ request' = [path |-> "/auth/login", username |-> username,
                         password |-> password, nth |-> bucket']
          /\ IF bucket' > limit_per_min
             THEN /\ http' \in {429, 500}
                  /\ response' = NoLogin
             ELSE LET context == credential_checker(username, password, settings)
                      tok == create_jwt(context.role, settings)
                  IN  IF context.tag = "none"
                      THEN http' = 401 /\ response' = NoLogin
                      ELSE IF tok = None
                      THEN http' = 500 /\ response' = NoLogin
                      ELSE http' = 200 /\ response' = LoginResponse(tok, context.role)
    /\ UNCHANGED <<duoVars, scanVars, sshVars, loginRest>>

\* minute_window = int(time.time() // 60) moves on: a new bucket key
NextMinute ==
    /\ bucket > 0
    /\ bucket' = 0
    /\ UNCHANGED <<duoVars, scanVars, sshVars, loginRest, request, http, response>>

LoginNext ==
    \/ auth_login
    \/ NextMinute

LoginSpec == LoginInit /\ [][LoginNext]_vars

\* the pair of the request is the admin pair or the configured readonly pair
PairMatches ==
    \/ request.username = settings.admin_user
       /\ request.password = settings.admin_pass
    \/ settings.readonly_user # ""
       /\ request.username = settings.readonly_user
       /\ request.password = settings.readonly_pass

PairRole ==
    IF request.username = settings.admin_user
       /\ request.password = settings.admin_pass
    THEN "admin" ELSE "readonly"

\* C23 as stated: POST /auth/login is answered 200 with a token and the role
\* exactly when the pair is the admin pair or the readonly pair; every other
\* pair is answered 401 without a token, on every attempt.
C23_LoginExactlyOnMatch ==
    request.path = "/auth/login" =>
        IF PairMatches
        THEN http = 200 /\ response.kind = "login" /\ response.role = PairRole
        ELSE http = 401 /\ response = NoLogin

\* C23: while the client is within the rate limit (at most 300 requests in
\* the minute) and JWT_SECRET is set, POST /auth/login is answered 200 with
\* a valid token and the role exactly when the pair is the admin pair or the
\* configured readonly pair, and 401 without a token for every other pair,
\* on every attempt; without JWT_SECRET a matching pair is answered 500;
\* beyond the limit every attempt is refused (429 or 500); a token is never
\* sent with another status than 200.
C23_LoginWithinLimit ==
    request.path = "/auth/login" =>
        /\ response.kind = "login" <=> http = 200
        /\ request.nth <= limit_per_min =>
              IF ~PairMatches THEN http = 401
              ELSE IF ~settings.jwt_secret THEN http = 500
              ELSE /\ http = 200
                   /\ response.role = PairRole
                   /\ validate_token(response.token, PairRole, settings) = "true"
        /\ request.nth > limit_per_min => http \in {429, 500}

\* the third wrong attempt in a row within one minute is answered 401
C23_ThirdFailureStill401 ==
    /\ request.path = "/auth/login"
    /\ request.nth = 3
    /\ ~PairMatches
    /\ http = 401

(***************************************************************************)
(* systemctl actions behind the service whitelist (app/config_whitelist.py,*)
(* app/services.py, app/main.py service_action, app/devices_api.py)        *)
(***************************************************************************)
SYSTEMCTL_BIN == "/bin/systemctl"

\* str.strip on the strings of the model
StripText(text) ==
    IF text = " nginx " THEN "nginx"
    ELSE IF text = "  " THEN ""
    ELSE text

\* the services (or logs_units) key of the whitelist file
ItemLists ==
    {NoItems, Items(<<>>), Items(<<"  ">>), Items(<<"nginx">>),
     Items(<<" nginx ", "">>)}

\* the whitelist file: missing, or with its services key
WhitelistFiles ==
    {[exists |-> FALSE, services |-> NoItems, logs_units |-> NoItems]}
    \cup [exists : {TRUE}, services : ItemLists, logs_units : {NoItems}]

\* _normalise: None for no list or an empty one, else the set of the
\* stripped entries that are not blank, or None when that set is empty
Unrestricted == [restricted |-> FALSE, names |-> {}]

_normalise(key) ==
    LET cleaned == {StripText(key.items[i]) : i \in 1..Len(key.items)} \ {""}
    IN  IF ~key.present \/ key.items = <<>> \/ cleaned = {} THEN Unrestricted
        ELSE [restricted |-> TRUE, names |-> cleaned]

\* load_whitelist: for a missing file it evaluates _Whitelist(None, None),
\* which lacks the third argument raw of _Whitelist.__init__: TypeError
load_whitelist(file) ==
    IF ~file.exists
    THEN [raised |-> TRUE, services |-> Unrestricted, logs_units |-> Unrestricted]
    ELSE [raised |-> FALSE, services |-> _normalise(file.services),
          logs_units |-> _normalise(file.logs_units)]

\* allowed_service: "raise" when load_whitelist raises
allowed_service(name, file) ==
    LET wl == load_whitelist(file)
    IN  IF wl.raised THEN "raise"
        ELSE IF ~wl.services.restricted THEN "true"
        ELSE IF name \in wl.services.names THEN "true"
        ELSE "false"

\* ServiceAction.validate_name returns value.strip()
ServiceNames == {"nginx", "ssh", " nginx "}

ServiceRequests ==
    [path : {"/service"}, name : ServiceNames, action : {"restart"},
     device_id : {Null}]
    \cup [path : {"/api/devices/{device_id}/service"}, name : ServiceNames,
          action : {"restart"}, device_id : DeviceIds]

ServiceInit ==
    /\ request \in ServiceRequests
    /\ http = 0
    /\ token \in QueryTokens
    /\ settings \in Settings
    /\ whitelist \in WhitelistFiles
    /\ executed = <<>>
    /\ registry = StoredDevices
    /\ calls = <<>>
    /\ response = [kind |-> "none"]
    /\ bucket = 0
    /\ InitNoScan
    /\ InitSshIdle
    /\ InitDuoIdle

Systemctl(where, action, name) ==
    [where |-> where, cmd |-> SYSTEMCTL_BIN, action |-> action, name |-> name]

\* service_action: the admin dependency; await manage_service(action), which
\* raises PermissionError (403) for a service that is not allowed and else
\* runs [SYSTEMCTL_BIN, action.action, action.name]; the TypeError of
\* load_whitelist is not caught (500)
service_action ==
    /\ request.path = "/service"
    /\ http = 0
    /\ LET denied == require_role(token, "admin", settings)
           name == StripText(request.name)
           allowed == allowed_service(name, whitelist)
       IN  IF denied # 0 THEN http' = denied /\ executed' = executed
           ELSE IF allowed = "raise" THEN http' = 500 /\ executed' = executed
           ELSE IF allowed = "false" THEN http' = 403 /\ executed' = executed
           ELSE /\ http' = 200
                /\ executed' = Append(executed,
                                      Systemctl("local", request.action, name))
    /\ UNCHANGED <<duoVars, scanVars, sshVars, opsRest>>

\* manage_remote_service_endpoint (no dependency): get_ssh_connection, whose
\* HTTPException is answered 502; result = manage_remote_service(conn,
\* action) is called without await in a plain def, so its body never runs:
\* allowed_service is not consulted, no PermissionError is raised and no
\* command is sent; the coroutine fails the response_model validation (500)
manage_remote_service_endpoint ==
    /\ request.path = "/api/devices/{device_id}/service"
    /\ http = 0
    /\ IF get_ssh_connection(registry, request.device_id) # 0
       THEN http' = 502 /\ conn' = conn
       ELSE http' = 500 /\ conn' = [conn EXCEPT !.obtained = TRUE]
    /\ executed' = executed
    /\ UNCHANGED <<duoVars, scanVars, sshRest, opsRest>>

ServiceNext ==
    \/ service_action
    \/ manage_remote_service_endpoint

ServiceSpec == ServiceInit /\ [][ServiceNext]_vars

\* the names the whitelist file lists, stripped, blanks left out
ListedServices ==
    {StripText(whitelist.services.items[i]) :
        i \in 1..Len(whitelist.services.items)} \ {""}

\* no whitelist is configured: no file, no services key, or nothing listed
NoServiceWhitelist == ~whitelist.exists \/ ListedServices = {}

ServiceAllowed == NoServiceWhitelist \/ StripText(request.name) \in ListedServices

\* the request has passed the dependencies of its endpoint and was answered
ServiceAnswered ==
    /\ http # 0
    /\ \/ request.path = "/api/devices/{device_id}/service"
       \/ request.path = "/service" /\ require_role(token, "admin", settings) = 0

\* C24: a systemctl action is executed (local or remote) only for a service
\* the whitelist allows; a request naming a service it does not allow is
\* answered 403 and executes no command; when no whitelist is configured
\* every service name is allowed.
C24_WhitelistGuardsSystemctl ==
    /\ \A i \in 1..Len(executed) :
          ServiceAllowed /\ executed[i].name = StripText(request.name)
    /\ (ServiceAnswered /\ ~ServiceAllowed) => (http = 403 /\ executed = <<>>)
    /\ (ServiceAnswered /\ NoServiceWhitelist) => http # 403
    /\ (ServiceAnswered /\ NoServiceWhitelist /\ request.path = "/service")
          => (http = 200 /\ Len(executed) = 1)

\* C25: for every accepted request, whatever the combination of network and
\* explicit hosts, the resolved target list has at most 4096 entries.
C25_TargetListCap ==
    (Resolved /\ http = 200) => Len(targets) <= 4096

(***************************************************************************)
(* Properties of the two phases of the ARP scan                            *)
(***************************************************************************)
\* every ping of phase 1 is over, with a result or with an exception
AllPingsOver == \A ip \in Range(targets) : ping[ip] \in PingOver

BeforeTableRead == gen \in {"init", "started", "gather", "log2"}

\* C26: the ARP table is read once, and only after the phase-1 ping of every
\* target is over (with success or with an error); a failing ping does not
\* abort the scan; no result event is emitted before the table has been read.
C26_TableReadAfterPings ==
    /\ [](scan_method = "arp" =>
            /\ gen \notin {"init", "started", "gather"} => AllPingsOver
            /\ BeforeTableRead => (Results = {} /\ stdout = <<>>)
            /\ es # "failed" /\ gen # "raised")
    /\ [][(scan_method = "arp" /\ stdout' # stdout) =>
             (gen = "log2" /\ gen' = "table" /\ AllPingsOver)]_vars

\* the table has been read, and is not empty, after a phase 1 in which one
\* ping raised and another returned; no result has been emitted yet
C26_ReadAfterFailedPing ==
    /\ scan_method = "arp"
    /\ gen = "table"
    /\ es = "streaming"
    /\ stdout # <<>>
    /\ \E ip \in Range(targets) : ping[ip] = "raised"
    /\ \E ip \in Range(targets) : ping[ip] = "done"
    /\ Results = {}

(***************************************************************************)
(* discover_by_ssh.worker (app/main.py 674-722): one probe of one target,  *)
(* run on its own, as a consumer that iterates the generator would run it  *)
(***************************************************************************)
\* what the network answers to the probe: asyncio.open_connection within
\* payload.timeout; reader.readline within 0.5 s (Null: nothing in time, ""
\* the peer closed without a line); socket.gethostbyaddr
Connects == {"open", "refused", "timeout"}
Banners == {Null, "", "SSH-2.0-OpenSSH_9.2p1 Raspbian-2", "SSH-2.0-dropbear"}
Lookups == {"raspberrypi.lan", "nas.lan", "herror"}

ProbeEnvs == [connect : Connects, banner : Banners, dns : Lookups]

\* "raspbian" in (banner or "").lower()
HasRaspbian(banner) == banner = "SSH-2.0-OpenSSH_9.2p1 Raspbian-2"

\* "raspberry" in (hostname or "").lower()
HasRaspberry(hostname) == hostname = "raspberrypi.lan"

\* DiscoverResult(**result_data) of the ssh strategy
SshResult(ip, status, hostname, ssh_banner, is_raspberry_pi) ==
    [type |-> "result", ip |-> ip, status |-> status, method |-> "ssh",
     hostname |-> hostname, ssh_banner |-> ssh_banner,
     is_raspberry_pi |-> is_raspberry_pi]

\* The body of worker after its log event, as a function of what the network
\* answers: the result and the number of reverse lookups made.  A banner that
\* does not come within 0.5 s raises asyncio.TimeoutError out of the inner
\* try (which has only a finally); the outer "except (asyncio.TimeoutError,
\* OSError): pass" catches it, so the rest of the try block, the reverse
\* lookup included, is skipped, with status already "active".
ssh_probe(ip, env, include_reverse_dns) ==
    IF env.connect # "open"
    THEN [result |-> SshResult(ip, "inactive", Null, Null, FALSE), lookups |-> 0]
    ELSE IF env.banner = Null
    THEN [result |-> SshResult(ip, "active", Null, Null, FALSE), lookups |-> 0]
    ELSE LET ssh_banner == IF env.banner = "" THEN Null ELSE env.banner
             by_banner == HasRaspbian(env.banner)
         IN  IF ~include_reverse_dns
             THEN [result |-> SshResult(ip, "active", Null, ssh_banner, by_banner),
                   lookups |-> 0]
             ELSE IF env.dns = "herror"
             THEN [result |-> SshResult(ip, "active", Null, ssh_banner, by_banner),
                   lookups |-> 1]
             ELSE [result |-> SshResult(ip, "active", env.dns, ssh_banner,
                                        by_banner \/ HasRaspberry(env.dns)),
                   lookups |-> 1]

WorkerInit ==
    /\ request \in [path : {"/api/discover"}, include_reverse_dns : BOOLEAN]
    /\ http = 200
    /\ scan_method = "ssh"
    /\ targets \in {<<ip>> : ip \in IPs}
    /\ max_concurrency = 1
    /\ gen = "started"
    /\ es = "streaming"
    /\ events = <<LogEvent(StartMessage("ssh"))>>
    /\ disconnected = FALSE
    /\ semaphore = 1
    /\ ping = NoPing
    /\ stdout = <<>>
    /\ pos = 1
    /\ found_hosts = {}
    /\ todo = {}
    /\ calls \in [pc : {"created"}, env : ProbeEnvs, lookups : {0}]
    /\ executed = <<>>
    /\ registry = <<>>
    /\ response = [kind |-> "none"]
    /\ whitelist = OpenWhitelist
    /\ bucket = 0
    /\ InitNoSession
    /\ InitDuoIdle

\* async with semaphore: yield the log event "Probando SSH en {ip}..."
worker_enter ==
    /\ calls.pc = "created"
    /\ semaphore > 0
    /\ semaphore' = semaphore - 1
    /\ events' = Append(events, [LogEvent("Probando SSH en ...") EXCEPT
                                   !.ip = targets[1]])
    /\ calls' = [calls EXCEPT !.pc = "probing"]
    /\ UNCHANGED <<duoVars, sshVars, request, http, executed, registry,
                   response, whitelist, bucket, scan_method, targets,
                   max_concurrency, gen, es, disconnected, ping, stdout, pos,
                   found_hosts, todo>>

\* the probe, the result event, the end of the async with block
worker ==
    /\ calls.pc = "probing"
    /\ LET out == ssh_probe(targets[1], calls.env, request.include_reverse_dns)
       IN  /\ events' = Append(events, out.result)
           /\ calls' = [calls EXCEPT !.pc = "returned", !.lookups = out.lookups]
    /\ semaphore' = semaphore + 1
    /\ UNCHANGED <<duoVars, sshVars, request, http, executed, registry,
                   response, whitelist, bucket, scan_method, targets,
                   max_concurrency, gen, es, disconnected, ping, stdout, pos,
                   found_hosts, todo>>

WorkerNext ==
    \/ worker_enter
    \/ worker

WorkerSpec == WorkerInit /\ [][WorkerNext]_vars

\* C27: in an SSH scan with include_reverse_dns set, every target whose TCP
\* connect succeeds is reported with status active and has its reverse-DNS
\* lookup made, whether or not a banner came within 0.5 s; when the flag is
\* not set no reverse-DNS lookup is ever made.
C27_ReverseDnsForEveryOpenPort ==
    calls.pc = "returned" =>
        /\ calls.env.connect = "open" =>
              /\ events[Len(events)].status = "active"
              /\ request.include_reverse_dns => calls.lookups = 1
        /\ ~request.include_reverse_dns => calls.lookups = 0

(***************************************************************************)
(* WebSocket /logs/ws (app/main.py logs_websocket, app/logs_ws.py)         *)
(***************************************************************************)
JOURNALCTL_BIN == "/bin/journalctl"

\* _token_from_websocket: the token query parameter when it is not empty,
\* without a "bearer " prefix and stripped ("" is no token for
\* validate_token)
_token_from_websocket(value) ==
    IF ~value.present THEN None
    ELSE IF value.body.kind = "empty" THEN None
    ELSE value.body

\* websocket.query_params.get("unit")
LogUnits == {Null, "nginx", "ssh"}

\* the whitelist file: missing, or with its logs_units key
LogWhitelistFiles ==
    {[exists |-> FALSE, services |-> NoItems, logs_units |-> NoItems]}
    \cup [exists : {TRUE}, services : {NoItems}, logs_units : ItemLists]

\* allowed_log_unit: True for no unit, before the whitelist is loaded
allowed_log_unit(unit, file) ==
    IF unit = Null THEN "true"
    ELSE LET wl == load_whitelist(file)
         IN  IF wl.raised THEN "raise"
             ELSE IF ~wl.logs_units.restricted THEN "true"
             ELSE IF unit \in wl.logs_units.names THEN "true"
             ELSE "false"

LogsInit ==
    /\ request \in [path : {"/logs/ws"}, unit : LogUnits]
    /\ http = 0
    /\ token \in QueryTokens
    /\ settings \in Settings
    /\ whitelist \in LogWhitelistFiles
    /\ executed = <<>>
    /\ registry = <<>>
    /\ calls = <<>>
    /\ response = [kind |-> "none"]
    /\ bucket = 0
    /\ InitNoScan
    /\ InitSshIdle
    /\ InitDuoIdle

logsRest == <<token, settings, conn, channel, read_task, write_task, pending,
              hist, request, http, registry, calls, response, whitelist, bucket>>

\* lines 463-469: the token check, then close(1008) and return, or accept();
\* an HTTPException of validate_token leaves the endpoint
LogsValidate ==
    /\ request.path = "/logs/ws"
    /\ hpc = "validate"
    /\ LET valid == validate_token(_token_from_websocket(token), "readonly",
                                   settings)
       IN  \/ /\ valid = "false"
              /\ ws' = [ws EXCEPT !.close_code = 1008]
              /\ hpc' = "rejected"
           \/ /\ valid = "raise"
              /\ ws' = ws
              /\ hpc' = "escaped"
           \/ /\ valid = "true"
              /\ ws' = [ws EXCEPT !.accepted = TRUE]
              /\ hpc' = "accepted"
    /\ UNCHANGED <<duoVars, scanVars, logsRest, client, executed>>

\* lines 470-476: stream = journal_stream(unit) only creates the async
\* generator: none of its body runs, so the except PermissionError clause
\* around the call can never be entered
LogsCreateStream ==
    /\ request.path = "/logs/ws"
    /\ hpc = "accepted"
    /\ hpc' = "iterating"
    /\ UNCHANGED <<duoVars, scanVars, logsRest, ws, client, executed>>

\* lines 478-488, first turn of "async for line in stream": the body of
\* journal_stream starts.  A unit that is not allowed raises PermissionError
\* (and a missing whitelist file TypeError) inside the try that handles only
\* WebSocketDisconnect: after the finally clause the exception leaves the
\* endpoint.  Otherwise journalctl is started.
LogsFirstLine ==
    /\ request.path = "/logs/ws"
    /\ hpc = "iterating"
    /\ LET allowed == allowed_log_unit(request.unit, whitelist)
       IN  IF allowed = "true"
           THEN /\ hpc' = "streaming"
                /\ executed' = Append(executed,
                                 [where |-> "local", cmd |-> JOURNALCTL_BIN,
                                  unit |-> request.unit])
           ELSE /\ hpc' = "escaped"
                /\ executed' = executed
    /\ UNCHANGED <<duoVars, scanVars, logsRest, ws, client>>

\* await websocket.send_text(text) for a line that is not blank
LogsSendLine ==
    /\ request.path = "/logs/ws"
    /\ hpc = "streaming"
    /\ client = "open"
    /\ ws.delivered < MaxMsgs
    /\ ws' = [ws EXCEPT !.delivered = @ + 1]
    /\ UNCHANGED <<duoVars, scanVars, logsRest, hpc, client, executed>>

\* the client goes away: WebSocketDisconnect, which the endpoint passes over;
\* or journalctl ends its output: the loop ends
LogsEnd ==
    /\ request.path = "/logs/ws"
    /\ hpc = "streaming"
    /\ \E way \in {"disconnect", "eof"} :
          client' = IF way = "disconnect" THEN "closed" ELSE client
    /\ hpc' = "returned"
    /\ UNCHANGED <<duoVars, scanVars, logsRest, ws, executed>>

LogsNext ==
    \/ LogsValidate
    \/ LogsCreateStream
    \/ LogsFirstLine
    \/ LogsSendLine
    \/ LogsEnd

LogsSpec == LogsInit /\ [][LogsNext]_vars

\* the names the whitelist file lists as log units
ListedLogUnits ==
    {StripText(whitelist.logs_units.items[i]) :
        i \in 1..Len(whitelist.logs_units.items)} \ {""}

\* the request names a unit that the log whitelist does not allow
UnitRefused ==
    /\ whitelist.exists
    /\ ListedLogUnits # {}
    /\ request.unit # Null
    /\ request.unit \notin ListedLogUnits

ValidLogToken ==
    validate_token(_token_from_websocket(token), "readonly", settings) = "true"

\* C30: a /logs/ws connection opened with a valid token but a unit the log
\* whitelist does not allow is closed with code 1008 and no log line is
\* sent; the permission error is handled by the endpoint and never escapes.
C30_RefusedUnitClosed1008 ==
    (request.path = "/logs/ws" /\ ValidLogToken /\ UnitRefused
     /\ hpc \in {"rejected", "escaped", "returned", "streaming"}) =>
        /\ ws.close_code = 1008
        /\ ws.delivered = 0
        /\ hpc # "escaped"

====
